---- MODULE Spec2Model ----
(***************************************************************************)
(* Verification model of the automate rule engine (System in system.py)    *)
(* and of its status queue / worker (section 4.3 of the specification).    *)
(*                                                                         *)
(* The state machines of this module:                                      *)
(*   Spec / FairSpec : the status queue, the worker thread and flush()     *)
(*   SpecLoad        : save_state(), load_or_create() and System.__init__  *)
(*   SpecNames       : the namespace: get_unique_name, registrations,      *)
(*                     register_service_functions, cmd_exec                *)
(*   SpecUnique      : get_unique_name as a function of the namespace      *)
(*   SpecLife        : the steps of System.__init__ and System.cleanup,    *)
(*                     with the worker thread and the keep-alive timer     *)
(*   SpecSnap        : save_state() step by step against the queue's       *)
(*                     mutex, the producers and the worker                 *)
(*   SpecUnsub       : ArduinoService: the subscriptions and the           *)
(*                     operations that release them                        *)
(*   SpecArduino     : ArduinoService (arduino_service.py): setup, the     *)
(*                     pin tables, reload and the virtualwire callback     *)
(*   SpecLock        : ArduinoService: the threads that write to the       *)
(*                     board and the service lock                          *)
(***************************************************************************)
EXTENDS Integers, Sequences, FiniteSets, TLC

VARIABLES
    \* ---- status queue and worker ----
    graph,        \* the object graph the system was constructed with
    status,       \* SystemObject.status of every object of the graph
    queue,        \* worker_thread.queue: FIFO of status-change requests
    workerPc,     \* the worker thread: "idle" (blocked in pop) or "busy"
    inflight,     \* the request the worker has popped and is applying
    budget,       \* external requests the producers may still enqueue
    enqLog,       \* history: the external requests in arrival order
    flushPc,      \* the thread calling flush(): "none", "waiting", "returned"
    enqAfterFlush,\* history: a request was enqueued after flush() returned
    driverCalls,  \* history: activation calls each actuator's driver received
    lastStep,     \* history: what the worker's last step did
    writers,      \* history: the threads that have written a status
    \* ---- snapshot files, save_state and load_or_create ----
    filename,     \* System.filename ("" when not specified)
    num_state_backups, \* System.num_state_backups
    files,        \* the file system: suffix i |-> content (0 is path itself)
    now,          \* the file system's clock
    progMtime,    \* os.path.getmtime(sys.argv[0])
    objects,      \* the running system: name |-> status
    savePc,       \* save_state: "idle", "rotate", "open", "dump"
    saveI,        \* save_state: the loop variable i of the rename loop
    saveMtime,    \* os.path.getmtime(filename)
    saves,        \* history: completed save_state calls
    startedEmpty, \* history: no snapshot file existed initially
    atSave,       \* history: the objects' statuses captured by the last save
    lc,           \* the load_or_create call: arguments, position, result
    \* ---- the namespace ----
    namespace,    \* System.namespace: name |-> the entity bound to it
    regLog,       \* history: the object registrations in order
    nsDeleted,    \* history: the names the last operation deleted explicitly
    nsOps,        \* history: namespace operations performed
    cmdLast,      \* history: the last cmd_exec call and how it ended
    gotName,      \* history: the last get_unique_name call and its result
    \* ---- save_state against the queue's mutex ----
    mutex,        \* worker_thread.queue.mutex: "free" or its holder
    capI,         \* save_state: the object the config comprehension is at
    snapConfig,   \* save_state: the config dictionary built so far
    capStart,     \* history: the statuses when save_state took the mutex
    \* ---- construction and teardown of the System ----
    lifePc,       \* the statement the constructing/cleaning thread is at
    lifeLog,      \* history: the steps performed, in order
    worker_autostart, \* System.worker_autostart
    workerAlive,  \* worker_thread.is_alive()
    workerStop,   \* the worker thread was asked to stop
    cleaned,      \* the objects whose cleanup() System.cleanup has called
    \* ---- ArduinoService ----
    board,        \* _board: "None", or the Board with its port "open"/"closed"
    is_mocked,    \* is_mocked: "unset" before the first setup
    iterator_thread, \* _iterator_thread: "None", "alive" or "joined"
    keep_alive,   \* the keep_alive setting
    os_errno,     \* the interpreter's os module has the attribute errno
    timers,       \* the threading.Timer objects created, by state
    keepalive_thread, \* _keepalive_thread: index into timers, 0 for None
    kaPc,         \* the timer thread running _keep_alive: its position
    kaTimer,      \* the timer whose thread is running _keep_alive
    act_digital,  \* _act_digital: the actuator table, in insertion order
    sens_digital, \* _sens_digital: pin and sensor, in insertion order
    sens_analog,  \* _sens_analog: pin and sensor, in insertion order
    sens_virtualwire_digital, \* source device |-> the sensors subscribed
    sens_virtualwire_analog,  \* source device |-> the sensors subscribed
    deviceWrites, \* history: messages written to the board
    ardLast,      \* history: the last ArduinoService call and its outcome
    ardOps,       \* history: ArduinoService calls made
    \* ---- the threads writing to the board ----
    lock,         \* _lock: "free" or the thread holding it
    thPc,         \* each thread's position in the operation it runs
    thOp,         \* the operation each thread runs, "" for none
    setupI        \* setup(): the configuration calls made so far

engineVars == <<graph, status, queue, workerPc, inflight, budget, enqLog,
                flushPc, enqAfterFlush, driverCalls, lastStep>>
loadVars == <<filename, num_state_backups, files, now, progMtime, objects,
              savePc, saveI, saveMtime, saves, startedEmpty, atSave, lc>>
nameVars == <<namespace, regLog, nsDeleted, nsOps, cmdLast, gotName>>
lifeVars == <<lifePc, lifeLog, worker_autostart, workerAlive, workerStop,
              cleaned>>
boardVars == <<board, is_mocked, iterator_thread, keep_alive, os_errno>>
timerVars == <<timers, keepalive_thread, kaPc, kaTimer>>
pinVars == <<act_digital, sens_digital, sens_analog,
             sens_virtualwire_digital, sens_virtualwire_analog>>
ardHist == <<deviceWrites, ardLast, ardOps>>
ardVars == <<boardVars, timerVars, pinVars, ardHist>>
snapVars == <<mutex, capI, snapConfig, capStart>>
lockVars == <<lock, thPc, thOp, setupI>>
otherVars == <<nameVars, lifeVars, ardVars, snapVars, lockVars>>
vars == <<engineVars, writers, loadVars, otherVars>>

(***************************************************************************)
(* Bounds of the model.                                                    *)
(***************************************************************************)
MaxRequests == 3      \* external requests enqueued in one behaviour
CallCap == 3          \* driverCalls counts up to this value
MaxBackups == 1       \* num_state_backups ranges over 0..MaxBackups
MaxSaves == 3         \* save_state calls in one behaviour
MaxTime == 2          \* the clock runs over 1..MaxTime
MaxPrompts == 1       \* answers other than y/n given to one prompt
MaxNsOps == 4         \* namespace operations in one behaviour
MaxTimers == 3        \* threading.Timer objects created in one behaviour
WriteCap == 2         \* deviceWrites counts up to this value
MaxArdOps == 4        \* ArduinoService calls in one behaviour

Min(a, b) == IF a < b THEN a ELSE b

(***************************************************************************)
(* Object graphs (section 3).  A Program's function is a conjunction of    *)
(* literals over its dependencies: true iff every object of pos is true    *)
(* and every object of neg is false.                                       *)
(***************************************************************************)
NoFn == [pos |-> {}, neg |-> {}]

\* Sensor door, Sensor armed, Program alarm_on = door and armed,
\* Actuator siren bound to alarm_on (section 8).
AlarmGraph ==
    [name   |-> "alarm",
     order  |-> <<"door", "armed", "alarm_on", "siren">>,
     kind   |-> [door |-> "sensor", armed |-> "sensor",
                 alarm_on |-> "program", siren |-> "actuator"],
     fn     |-> [door |-> NoFn, armed |-> NoFn, siren |-> NoFn,
                 alarm_on |-> [pos |-> {"door", "armed"}, neg |-> {}]],
     bound  |-> [door |-> "", armed |-> "", alarm_on |-> "", siren |-> "alarm_on"],
     active |-> [door |-> TRUE, armed |-> TRUE, alarm_on |-> TRUE, siren |-> TRUE]]

\* A two-hop chain s -> p -> q, and an inactive program z reading s.
ChainGraph ==
    [name   |-> "chain",
     order  |-> <<"s", "p", "q", "z">>,
     kind   |-> [s |-> "sensor", p |-> "program", q |-> "program", z |-> "program"],
     fn     |-> [s |-> NoFn,
                 p |-> [pos |-> {"s"}, neg |-> {}],
                 q |-> [pos |-> {"p"}, neg |-> {}],
                 z |-> [pos |-> {"s"}, neg |-> {}]],
     bound  |-> [s |-> "", p |-> "", q |-> "", z |-> ""],
     active |-> [s |-> TRUE, p |-> TRUE, q |-> TRUE, z |-> FALSE]]

\* A cyclic graph: program p = s and not p reads its own status.
CycleGraph ==
    [name   |-> "cycle",
     order  |-> <<"s", "p">>,
     kind   |-> [s |-> "sensor", p |-> "program"],
     fn     |-> [s |-> NoFn, p |-> [pos |-> {"s"}, neg |-> {"p"}]],
     bound  |-> [s |-> "", p |-> ""],
     active |-> [s |-> TRUE, p |-> TRUE]]

Graphs == {AlarmGraph, ChainGraph, CycleGraph}

Names(g) == DOMAIN g.kind
Sensors(g) == {o \in Names(g) : g.kind[o] = "sensor"}
Programs(g) == {o \in Names(g) : g.kind[o] = "program"}
Actuators(g) == {o \in Names(g) : g.kind[o] = "actuator"}
\* Program.dependencies
Deps(g, p) == g.fn[p].pos \cup g.fn[p].neg

\* The Program's function over a read snapshot st of the statuses.
Eval(g, p, st) ==
    /\ \A d \in g.fn[p].pos : st[d]
    /\ \A d \in g.fn[p].neg : ~st[d]

NoRequest == [target |-> "", value |-> FALSE, origin |-> "none"]
NoStep == [kind |-> "none", target |-> "", recomputed |-> {},
           cascades |-> <<>>, sideEffect |-> FALSE]

(***************************************************************************)
(* Status queue and worker: section 4.3.                                   *)
(***************************************************************************)
\* enqueue_status_change(target, new_value): a producer thread appends a
\* request to the queue; it never touches the target's status.
Enqueue(t, v) ==
    /\ budget > 0
    /\ t \in Sensors(graph)
    /\ queue' = Append(queue, [target |-> t, value |-> v, origin |-> "external"])
    /\ budget' = budget - 1
    /\ enqLog' = Append(enqLog, <<t, v>>)
    /\ enqAfterFlush' = (enqAfterFlush \/ flushPc = "returned")
    /\ UNCHANGED <<graph, status, workerPc, inflight, flushPc, driverCalls,
                   lastStep, writers, loadVars, otherVars>>

\* Worker loop step 1: pop the next request.
WorkerPop ==
    /\ workerPc = "idle"
    /\ queue # <<>>
    /\ inflight' = Head(queue)
    /\ queue' = Tail(queue)
    /\ workerPc' = "busy"
    /\ UNCHANGED <<graph, status, budget, enqLog, flushPc, enqAfterFlush,
                   driverCalls, lastStep, writers, loadVars, otherVars>>

\* Step 2, mutated: the worker applies a request even when it does not change
\* the status.
SkipsMutant(req) == FALSE

\* Worker loop step 2: a request whose value equals the current status is
\* skipped.
Skips(req) == req.value = status[req.target]

\* Step 5: the objects to look at after target changed, in registration
\* order: active Programs that list target as a dependency, and Actuators
\* bound to target.
RECURSIVE DependentsFrom(_, _, _)
DependentsFrom(g, t, i) ==
    IF i > Len(g.order) THEN <<>>
    ELSE LET o == g.order[i]
             hit == \/ /\ g.kind[o] = "program"
                       /\ g.active[o]
                       /\ t \in Deps(g, o)
                    \/ /\ g.kind[o] = "actuator"
                       /\ g.bound[o] = t
         IN  (IF hit THEN <<o>> ELSE <<>>) \o DependentsFrom(g, t, i + 1)

Dependents(g, t) == DependentsFrom(g, t, 1)

\* The value step 5 computes for dependent o over the current statuses st.
Recompute(g, o, st) ==
    IF g.kind[o] = "program" THEN Eval(g, o, st) ELSE st[g.bound[o]]

\* Step 5: the cascade requests, one per dependent whose recomputed value
\* differs from its current status, in registration order.
RECURSIVE CascadesFrom(_, _, _)
CascadesFrom(g, ds, st) ==
    IF ds = <<>> THEN <<>>
    ELSE LET o == Head(ds)
             r == Recompute(g, o, st)
         IN  (IF r # st[o]
              THEN <<[target |-> o, value |-> r, origin |-> "cascade"]>>
              ELSE <<>>) \o CascadesFrom(g, Tail(ds), st)

\* Worker loop steps 2-5 for the request popped.
WorkerApply ==
    /\ workerPc = "busy"
    /\ LET req == inflight
           t == req.target
       IN IF Skips(req)
          THEN /\ lastStep' = [NoStep EXCEPT !.kind = "skip", !.target = t]
               /\ UNCHANGED <<status, queue, driverCalls, writers>>
          ELSE LET st == [status EXCEPT ![t] = req.value]
                   ds == Dependents(graph, t)
                   cs == CascadesFrom(graph, ds, st)
                   act == graph.kind[t] = "actuator"
               IN /\ status' = st
                  /\ writers' = writers \cup {"worker"}
                  /\ driverCalls' =
                        IF act /\ req.value
                        THEN [driverCalls EXCEPT ![t] = Min(@ + 1, CallCap)]
                        ELSE driverCalls
                  /\ queue' = queue \o cs
                  /\ lastStep' = [kind |-> "apply", target |-> t,
                                  recomputed |-> {ds[i] : i \in 1..Len(ds)},
                                  cascades |-> cs, sideEffect |-> act]
    /\ workerPc' = "idle"
    /\ inflight' = NoRequest
    /\ UNCHANGED <<graph, budget, enqLog, flushPc, enqAfterFlush, loadVars, otherVars>>

\* flush() is called.
FlushCall ==
    /\ flushPc \in {"none", "returned"}
    /\ flushPc' = "waiting"
    /\ enqAfterFlush' = FALSE
    /\ UNCHANGED <<graph, status, queue, workerPc, inflight, budget, enqLog,
                   driverCalls, lastStep, writers, loadVars, otherVars>>

\* flush() blocks until the queue is empty and the worker is idle.
FlushDone == queue = <<>> /\ workerPc = "idle"

\* flush(), mutated: it returns without waiting for the worker.
FlushReturnMutant ==
    /\ flushPc = "waiting"
    /\ flushPc' = "returned"
    /\ UNCHANGED <<graph, status, queue, workerPc, inflight, budget, enqLog,
                   enqAfterFlush, driverCalls, lastStep, writers, loadVars, otherVars>>

\* flush() returns to its caller.
FlushReturn ==
    /\ flushPc = "waiting"
    /\ FlushDone
    /\ flushPc' = "returned"
    /\ UNCHANGED <<graph, status, queue, workerPc, inflight, budget, enqLog,
                   enqAfterFlush, driverCalls, lastStep, writers, loadVars, otherVars>>

EngineInit ==
    /\ graph \in Graphs
    /\ status = [o \in Names(graph) |-> FALSE]
    /\ queue = <<>>
    /\ workerPc = "idle"
    /\ inflight = NoRequest
    /\ budget = MaxRequests
    /\ enqLog = <<>>
    /\ flushPc = "none"
    /\ enqAfterFlush = FALSE
    /\ driverCalls = [o \in Actuators(graph) |-> 0]
    /\ lastStep = NoStep
    /\ writers = {}

(***************************************************************************)
(* Snapshot files: save_state and load_or_create (system.py).              *)
(***************************************************************************)
STATEFILE_VERSION == 1

\* The objects of the static definitions (the System subclass's attributes),
\* the objects whose user_editable attribute is true, and the status of a
\* freshly constructed object.
StaticObjects == {"lamp", "temp"}
UserEditable == {"lamp"}
StatusValues == {0, 1}
DefaultStatus == 0

Suffixes == 0..(MaxBackups + 1)
Empty == [x \in {} |-> 0]
NoFile == [exists |-> FALSE, complete |-> FALSE, version |-> 0,
           objs |-> Empty, config |-> Empty, id |-> 0]

\* The dictionary save_state builds: name -> status of the user-editable
\* objects, mutated to hold every object.
EditableConfigMutant(objs) == objs

\* config = {obj.name: obj.status for obj in obj_list
\*           if getattr(obj, 'user_editable', False)}
EditableConfig(objs) ==
    [o \in (DOMAIN objs) \cap UserEditable |-> objs[o]]

\* What pickle.dump((STATEFILE_VERSION, (obj_list, config)), file) writes.
Pickled(objs, n) ==
    [exists |-> TRUE, complete |-> TRUE, version |-> STATEFILE_VERSION,
     objs |-> objs, config |-> EditableConfig(objs), id |-> n]

\* A snapshot written before the program started: by this version of the
\* engine, or by one with another STATEFILE_VERSION.
OldFiles ==
    {[exists |-> TRUE, complete |-> TRUE, version |-> v,
      objs |-> [o \in StaticObjects |-> IF o = "lamp" THEN 1 ELSE DefaultStatus],
      config |-> [o \in UserEditable |-> 1], id |-> 0]
        : v \in {STATEFILE_VERSION, STATEFILE_VERSION + 1}}

\* The path of suffix i: filename itself for 0, filename.i otherwise.
\* The rename loop's source, mutated: it never moves the file at path itself.
RenameSourcesMutant(n) == {i \in 1..(n - 1) : TRUE}

\* for i in reversed(range(self.num_state_backups))
RenameSources(n) == 0..(n - 1)

\* save_state is called.
SaveStart ==
    /\ savePc = "idle"
    /\ lc.pc = "idle"
    /\ saves < MaxSaves
    /\ IF filename = ""
       THEN UNCHANGED <<savePc, saveI>>
       ELSE IF num_state_backups > 0
            THEN savePc' = "rotate" /\ saveI' = num_state_backups - 1
            ELSE savePc' = "open" /\ UNCHANGED saveI
    /\ UNCHANGED <<otherVars, engineVars, writers, filename, num_state_backups, files, now,
                   progMtime, objects, saveMtime, saves, startedEmpty, atSave, lc>>

\* One iteration of the rename loop: os.rename(fname, new_fname), a missing
\* fname is passed over.
SaveRename ==
    /\ savePc = "rotate"
    /\ LET i == saveI
       IN /\ IF i \in RenameSources(num_state_backups) /\ files[i].exists
             THEN files' = [files EXCEPT ![i + 1] = files[i], ![i] = NoFile]
             ELSE UNCHANGED files
          /\ IF i = 0
             THEN savePc' = "open" /\ UNCHANGED saveI
             ELSE saveI' = i - 1 /\ UNCHANGED savePc
    /\ UNCHANGED <<otherVars, engineVars, writers, filename, num_state_backups, now,
                   progMtime, objects, saveMtime, saves, startedEmpty, atSave, lc>>

\* open(self.filename, 'wb'): the file at path is created or truncated.
SaveOpen ==
    /\ savePc = "open"
    /\ files' = [files EXCEPT ![0] = [NoFile EXCEPT !.exists = TRUE]]
    /\ saveMtime' = now
    /\ savePc' = "dump"
    /\ UNCHANGED <<otherVars, engineVars, writers, filename, num_state_backups, now,
                   progMtime, objects, saveI, saves, startedEmpty, atSave, lc>>

\* Under the queue's mutex: the object list and the editable config are
\* captured and pickled to the file.
SaveDump ==
    /\ savePc = "dump"
    /\ files' = [files EXCEPT ![0] = Pickled(objects, saves + 1)]
    /\ saveMtime' = now
    /\ atSave' = objects
    /\ saves' = saves + 1
    /\ savePc' = "idle"
    /\ UNCHANGED <<otherVars, engineVars, writers, filename, num_state_backups, now,
                   progMtime, objects, saveI, startedEmpty, lc>>

\* The worker applies a status change in the running system.
RuntimeChange(o, v) ==
    /\ lc.pc = "idle"
    /\ o \in DOMAIN objects
    /\ objects[o] # v
    /\ objects' = [objects EXCEPT ![o] = v]
    /\ writers' = writers \cup {"worker"}
    /\ UNCHANGED <<otherVars, engineVars, filename, num_state_backups, files, now, progMtime,
                   savePc, saveI, saveMtime, saves, startedEmpty, atSave, lc>>

\* Time passes.
Tick ==
    /\ now < MaxTime
    /\ now' = now + 1
    /\ UNCHANGED <<otherVars, engineVars, writers, filename, num_state_backups, files,
                   progMtime, objects, savePc, saveI, saveMtime, saves,
                   startedEmpty, atSave, lc>>

\* The program file is edited.
TouchProgram ==
    /\ lc.pc = "idle"
    /\ progMtime # now
    /\ progMtime' = now
    /\ UNCHANGED <<otherVars, engineVars, writers, filename, num_state_backups, files, now,
                   objects, savePc, saveI, saveMtime, saves, startedEmpty,
                   atSave, lc>>

(***************************************************************************)
(* load_or_create (system.py, lines 199-261) and System.__init__.          *)
(***************************************************************************)
NoResult == [kind |-> "none", exc |-> "", objs |-> Empty, applied |-> {}]
Raised(e) == [kind |-> "raised", exc |-> e, objs |-> Empty, applied |-> {}]

LcIdle == [pc |-> "idle", argNoInput |-> FALSE, argCreateNew |-> FALSE,
           flagNoInput |-> FALSE, flagCreateNew |-> FALSE,
           no_input |-> FALSE, create_new |-> FALSE,
           prompts |-> 0, answer |-> "", branch |-> "none", result |-> NoResult]

\* The flag handling without line 215: --create_new does not set no_input.
EffNoInputMutant(argNoInput, flagNoInput, flagCreateNew) ==
    argNoInput \/ flagNoInput

\* no_input after lines 209-215: the argument, or --no_input, or --create_new.
EffNoInput(argNoInput, flagNoInput, flagCreateNew) ==
    argNoInput \/ flagNoInput \/ flagCreateNew

\* create_new after lines 212-214: the argument, or --create_new.
EffCreateNew(argCreateNew, flagCreateNew) == argCreateNew \/ flagCreateNew

\* The comparison with its operands swapped.
savefile_more_recent_mutant == saveMtime < progMtime

\* def savefile_more_recent(): time_savefile > time_program
savefile_more_recent == saveMtime > progMtime

\* load_pickle without the check of the version.
load_pickle_mutant(f) ==
    IF ~f.exists
    THEN [exc |-> "FileNotFoundError", objs |-> Empty, config |-> Empty]
    ELSE [exc |-> "", objs |-> f.objs, config |-> f.config]

\* def load_pickle(): the file's data, or the exception raised.
load_pickle(f) ==
    IF ~f.exists
    THEN [exc |-> "FileNotFoundError", objs |-> Empty, config |-> Empty]
    ELSE IF f.version # STATEFILE_VERSION
         THEN [exc |-> "RuntimeError", objs |-> Empty, config |-> Empty]
         ELSE [exc |-> "", objs |-> f.objs, config |-> f.config]

\* System.__init__ for load_config: every entry whose name is an attribute of
\* the system is written to that object's status; mutated to skip the loop.
ApplyConfigMutant(objs, config) == objs

\* for obj_name, status in load_config.items():
\*     if hasattr(self, obj_name): getattr(self, obj_name).status = status
ApplyConfig(objs, config) ==
    [o \in DOMAIN objs |-> IF o \in DOMAIN config THEN config[o] ELSE objs[o]]

\* System(load_state=obj_list, load_config=config): the namespace is built
\* from the loaded object list, or from the static definitions.
SystemInit(load_state, useState, config) ==
    LET built == IF useState THEN load_state
                 ELSE [o \in StaticObjects |-> DefaultStatus]
    IN  [kind |-> IF useState THEN "loaded" ELSE "created",
         exc |-> "",
         objs |-> ApplyConfig(built, config),
         applied |-> (DOMAIN built) \cap (DOMAIN config)]

\* def load(): the system of the snapshot's object list.
load ==
    LET d == load_pickle(files[0])
    IN  IF d.exc # "" THEN Raised(d.exc) ELSE SystemInit(d.objs, TRUE, Empty)

\* def create(): a fresh system, with the editable config of the file when
\* there is one; only FileNotFoundError is caught.
create ==
    LET d == load_pickle(files[0])
    IN  IF filename = "" \/ d.exc = "FileNotFoundError"
        THEN SystemInit(Empty, FALSE, Empty)
        ELSE IF d.exc # "" THEN Raised(d.exc)
             ELSE SystemInit(Empty, FALSE, d.config)

\* The call returns or raises with result r, reached through branch b.
Finish(call, b, r) ==
    /\ lc' = [call EXCEPT !.pc = "done", !.branch = b, !.result = r]
    /\ writers' = IF r.applied # {} THEN writers \cup {"main"} ELSE writers

\* load_or_create(filename, no_input, create_new) is called with the command
\* line flags --no_input and --create_new; it runs to its return or to its
\* first prompt.
LoadOrCreate(argNoInput, argCreateNew, flagNoInput, flagCreateNew) ==
    /\ lc.pc = "idle"
    /\ savePc = "idle"
    /\ LET call == [LcIdle EXCEPT
                      !.argNoInput = argNoInput, !.argCreateNew = argCreateNew,
                      !.flagNoInput = flagNoInput, !.flagCreateNew = flagCreateNew,
                      !.no_input = EffNoInput(argNoInput, flagNoInput, flagCreateNew),
                      !.create_new = EffCreateNew(argCreateNew, flagCreateNew)]
       IN IF filename # "" /\ files[0].exists
          THEN IF savefile_more_recent /\ ~call.create_new
               THEN Finish(call, "load", load)
               ELSE IF call.no_input
                    THEN Finish(call, "create", create)
                    ELSE /\ lc' = [call EXCEPT !.pc = "prompt", !.prompts = 1]
                         /\ UNCHANGED writers
          ELSE Finish(call, "create", create)
    /\ UNCHANGED <<otherVars, engineVars, filename, num_state_backups, files, now, progMtime,
                   objects, savePc, saveI, saveMtime, saves, startedEmpty, atSave>>

\* if answer == 'y': return create()
AnswerCreates(a) == a = "y"

\* The second test, mutated: every answer other than 'y' loads.
AnswerLoadsMutant(a) == TRUE

\* elif answer == 'n': return load()
AnswerLoads(a) == a = "n"

\* The user answers the prompt: 'y' creates, 'n' loads, anything else asks
\* again.
Answer(a) ==
    /\ lc.pc = "prompt"
    /\ IF AnswerCreates(a) THEN Finish([lc EXCEPT !.answer = a], "create", create)
       ELSE IF AnswerLoads(a) THEN Finish([lc EXCEPT !.answer = a], "load", load)
       ELSE /\ lc.prompts <= MaxPrompts
            /\ lc' = [lc EXCEPT !.prompts = @ + 1, !.answer = a]
            /\ UNCHANGED writers
    /\ UNCHANGED <<otherVars, engineVars, filename, num_state_backups, files, now, progMtime,
                   objects, savePc, saveI, saveMtime, saves, startedEmpty, atSave>>

\* The caller takes the returned system into use (or the process ends with
\* the exception raised).
LcReturn ==
    /\ lc.pc = "done"
    /\ objects' = IF lc.result.kind = "raised" THEN objects ELSE lc.result.objs
    /\ lc' = LcIdle
    /\ UNCHANGED <<otherVars, engineVars, writers, filename, num_state_backups, files, now,
                   progMtime, savePc, saveI, saveMtime, saves, startedEmpty, atSave>>

(***************************************************************************)
(* The namespace (section 4.1): get_unique_name, the registration of       *)
(* objects, register_service_functions and the assignments of cmd_exec.    *)
(* A name is the sequence of its parts between underscores; a part is a    *)
(* word or a string of decimal digits.                                     *)
(***************************************************************************)
Word(w) == [w |-> w, d |-> <<>>]
Number(d) == [w |-> "", d |-> d]

\* str(k): the decimal digits of k.
RECURSIVE Digits(_)
Digits(k) == IF k < 10 THEN <<k>> ELSE Append(Digits(k \div 10), k % 10)

\* "%.2d" % counter: at least two digits, padded with zeros.
Fmt2(counter) == IF counter < 10 THEN <<0, counter>> ELSE Digits(counter)

\* u"%s_%.2d" % (newname, counter)
Suffixed(newname, counter) == Append(newname, Number(Fmt2(counter)))

\* u"Nameless_" + obj.__class__.__name__
Nameless(cls) == <<Word("Nameless"), Word(cls)>>

\* The name get_unique_name starts from, mutated: name_from_system is
\* preferred to name.
BaseNameMutant(cls, name, name_from_system) ==
    IF name_from_system # <<>> THEN name_from_system
    ELSE IF name # <<>> THEN name
    ELSE Nameless(cls)

\* The name get_unique_name starts from: name, else name_from_system, else
\* the generated name.
BaseName(cls, name, name_from_system) ==
    IF name # <<>> THEN name
    ELSE IF name_from_system # <<>> THEN name_from_system
    ELSE Nameless(cls)

\* The while loop of get_unique_name: the first counter from c on whose
\* name is free in ns.
RECURSIVE ProbeCounter(_, _, _)
ProbeCounter(ns, newname, c) ==
    IF Suffixed(newname, c) \notin DOMAIN ns THEN c
    ELSE ProbeCounter(ns, newname, c + 1)

\* get_unique_name, mutated: the first suffixed name, without looking it up.
get_unique_name_mutant(ns, cls, name, name_from_system) ==
    LET newname == BaseName(cls, name, name_from_system)
    IN  IF newname \notin DOMAIN ns THEN newname ELSE Suffixed(newname, 0)

get_unique_name(ns, cls, name, name_from_system) ==
    LET newname == BaseName(cls, name, name_from_system)
    IN  IF newname \notin DOMAIN ns THEN newname
        ELSE Suffixed(newname, ProbeCounter(ns, newname, 0))

\* ns[key] = value
Bind(ns, key, value) ==
    [n \in DOMAIN ns \cup {key} |-> IF n = key THEN value ELSE ns[n]]

\* The inputs of the namespace operations.
ObjectClasses == {"Sensor", "Actuator"}
GivenNames == {<<>>, <<Word("lamp")>>, Suffixed(<<Word("lamp")>>, 0)}
SystemNames == {<<>>, <<Word("temp")>>}
FunctionNames == {<<Word("lamp")>>, <<Word("reload")>>}
CommandKeys == {<<Word("lamp")>>, <<Word("x")>>}
Commands == {"", "cmd"}

\* The entities a name can be bound to.
TheObject(i) == <<"object", i>>
TheFunction(fname) == <<"function", fname>>
TheValue(v) == <<"value", v>>

\* "%.2d" pads with zeros to two digits: counters from PadLimit on are
\* written with more.
PadLimit == 100

\* Namespaces get_unique_name is called on: the subsets of a pool of
\* names, and a namespace that holds lamp and lamp_00 ... lamp_99.
NamePool ==
    {<<Word("lamp")>>, Suffixed(<<Word("lamp")>>, 0),
     Suffixed(<<Word("lamp")>>, 1), <<Word("temp")>>,
     Nameless("Sensor"), Suffixed(Nameless("Sensor"), 0)}
Crowded ==
    {<<Word("lamp")>>} \cup
       {Suffixed(<<Word("lamp")>>, k) : k \in 0..(PadLimit - 1)}
Namespaces ==
    {[n \in S |-> TheObject(0)] : S \in (SUBSET NamePool) \cup {Crowded}}

NoName == [cls |-> "", name |-> <<>>, name_from_system |-> <<>>,
           got |-> <<>>]

\* get_unique_name(obj, name, name_from_system) is called: it reads the
\* namespace and returns a name.
GetUniqueName(cls, name, name_from_system) ==
    /\ gotName' = [cls |-> cls, name |-> name,
                   name_from_system |-> name_from_system,
                   got |-> get_unique_name(namespace, cls, name,
                                           name_from_system)]
    /\ UNCHANGED <<engineVars, writers, loadVars, snapVars, lockVars, lifeVars,
                   ardVars, namespace, regLog, nsDeleted, nsOps, cmdLast>>

\* An object is given its name by get_unique_name and is registered under
\* it.
RegisterObject(cls, name, name_from_system) ==
    /\ nsOps < MaxNsOps
    /\ LET newname == BaseName(cls, name, name_from_system)
           got == get_unique_name(namespace, cls, name, name_from_system)
       IN  /\ namespace' = Bind(namespace, got, TheObject(Len(regLog) + 1))
           /\ regLog' = Append(regLog,
                  [base |-> newname, name |-> got,
                   counter |-> IF got = newname THEN -1
                               ELSE ProbeCounter(namespace, newname, 0)])
    /\ nsDeleted' = {}
    /\ nsOps' = nsOps + 1
    /\ UNCHANGED <<engineVars, writers, loadVars, snapVars, lockVars, lifeVars, ardVars, cmdLast,
                   gotName>>

\* register_service_functions(func): self.namespace[func.__name__] = func
RegisterServiceFunction(fname) ==
    /\ nsOps < MaxNsOps
    /\ namespace' = Bind(namespace, fname, TheFunction(fname))
    /\ nsDeleted' = {}
    /\ nsOps' = nsOps + 1
    /\ UNCHANGED <<engineVars, writers, loadVars, snapVars, lockVars, lifeVars, ardVars, regLog,
                   cmdLast, gotName>>

\* The exception classes a command can raise: an ordinary Exception,
\* ExitException, and a BaseException that is not an Exception (SystemExit,
\* KeyboardInterrupt).
Raises == {"Exception", "ExitException", "BaseException"}

\* What eval(cmd, ns) does: gives a plain value, gives a callable, raises
\* SyntaxError (cmd is a statement), or raises something else.
EvalOutcomes == {"value", "callable", "SyntaxError"} \cup Raises

\* What the second stage, r() of a callable or exec(cmd, ns) of a
\* statement, does.
RunOutcomes == {"ok"} \cup Raises

NoCommand == [cmd |-> "", ev |-> "", run |-> "", ret |-> "none", exc |-> ""]

\* The except clauses of cmd_exec, mutated: ExitException is swallowed like
\* every other Exception.
PropagatesMutant(e) == e = "BaseException"

\* The except clauses of cmd_exec, at both levels: ExitException is raised
\* again, an Exception is caught, anything else is not caught at all.
Propagates(e) == e # "Exception"

\* The second stage cmd_exec runs after eval: r() when the result is
\* callable, exec(cmd, ns) after a SyntaxError, else none.
HasRun(cmd, ev) == cmd # "" /\ ev \in {"callable", "SyntaxError"}

\* The exception the command raised inside cmd_exec, "" when it ran
\* without error.
CmdFailure(cmd, ev, run) ==
    IF cmd = "" THEN ""
    ELSE IF ev \in Raises THEN ev
    ELSE IF HasRun(cmd, ev) /\ run \in Raises THEN run
    ELSE ""

\* How cmd_exec ends: ret is "None", "True" or "False", or "raised" with
\* the exception that left the call.
CmdExecReturn(cmd, ev, run) ==
    LET e == CmdFailure(cmd, ev, run)
    IN  IF cmd = "" THEN [ret |-> "None", exc |-> ""]
        ELSE IF e = "" THEN [ret |-> "True", exc |-> ""]
        ELSE IF Propagates(e) THEN [ret |-> "raised", exc |-> e]
        ELSE [ret |-> "False", exc |-> ""]

\* The loop over the changed items (lines 461-466) runs after exec has
\* returned or has raised an Exception that was caught.
CmdExecBinds(cmd, ev, run) ==
    /\ cmd # "" /\ ev = "SyntaxError"
    /\ ~(run \in Raises /\ Propagates(run))

\* cmd_exec(cmd).  key and v are the binding the statement made in ns before
\* it ended (key is <<>> when it made none): the loop over the changed
\* items deletes the key from the namespace when it is there and inserts
\* the new value.
cmd_exec(cmd, ev, run, key, v) ==
    /\ nsOps < MaxNsOps
    /\ LET binds == /\ CmdExecBinds(cmd, ev, run)
                    /\ key # <<>>
                    /\ ~(key \in DOMAIN namespace
                           /\ namespace[key] = TheValue(v))
           end == CmdExecReturn(cmd, ev, run)
       IN  /\ namespace' = IF binds THEN Bind(namespace, key, TheValue(v))
                           ELSE namespace
           /\ nsDeleted' = IF binds /\ key \in DOMAIN namespace THEN {key}
                           ELSE {}
           /\ cmdLast' = [cmd |-> cmd, ev |-> ev,
                          run |-> IF HasRun(cmd, ev) THEN run ELSE "",
                          ret |-> end.ret, exc |-> end.exc]
    /\ nsOps' = nsOps + 1
    /\ UNCHANGED <<engineVars, writers, loadVars, snapVars, lockVars, lifeVars,
                   ardVars, regLog, gotName>>

\* cmd_exec of a statement that binds key to a value and ends normally.
CmdExecAssign(key, v) ==
    /\ ~(key \in DOMAIN namespace /\ namespace[key] = TheValue(v))
    /\ cmd_exec("cmd", "SyntaxError", "ok", key, v)

\* The other calls of cmd_exec: the empty command, expressions, callables,
\* and statements that bind at most one name before they fail.
CmdExec(cmd, ev, run, key) ==
    /\ HasRun(cmd, ev) \/ run = "ok"
    /\ CmdExecBinds(cmd, ev, run) \/ key = <<>>
    /\ ~(ev = "SyntaxError" /\ run = "ok" /\ key # <<>>)
    /\ cmd_exec(cmd, ev, run, key, 1)

(***************************************************************************)
(* ArduinoService: setup, the keep-alive timer and cleanup                 *)
(* (arduino_service.py).                                                   *)
(***************************************************************************)
NoMessage == [sender |-> 0, command |-> 0, data |-> <<>>]

\* What a call did: the exception it raised, whether it wrote to the board,
\* the set_status calls it made and whether it logged an error; for the
\* virtualwire callback the message and whether the message before it was
\* dropped; for reload the objects cleaned up and set up, in order.
NoCall == [op |-> "", arg |-> "", pin |-> -1, raised |-> "", wrote |-> FALSE,
           calls |-> <<>>, logged |-> FALSE, msg |-> NoMessage,
           prevDropped |-> FALSE, cleaned |-> <<>>, setups |-> <<>>]
Call(op, pin, raised, wrote) ==
    [NoCall EXCEPT !.op = op, !.pin = pin, !.raised = raised, !.wrote = wrote]

\* The source devices virtualwire messages come from.
Devices == {1, 2}

\* How pyfirmata.Board(device) ends: the board is opened, or OSError is
\* raised with errno ENOENT or with another errno.
OpenResults == {"ok", "ENOENT", "EIO"}

\* The exception raised inside the try block of setup.
SetupException(readable, opened) ==
    IF ~readable THEN "FileNotReadableError"
    ELSE IF opened = "ok" THEN ""
    ELSE "OSError"

\* The exception that escapes setup.  The handler's test is
\*   isinstance(e, FileNotReadableError) or e.errno == os.errno.ENOENT
\* and its second operand raises AttributeError where os has no errno.
SetupRaises(readable, opened) ==
    LET e == SetupException(readable, opened)
    IN  IF e # "OSError" THEN ""
        ELSE IF ~os_errno THEN "AttributeError"
        ELSE IF opened = "ENOENT" THEN ""
        ELSE "OSError"

\* The handler puts the service in mocked mode.
SetupMocks(readable, opened) ==
    /\ SetupException(readable, opened) # ""
    /\ SetupRaises(readable, opened) = ""

\* A message is written to the board.
Written(n) == Min(deviceWrites + n, WriteCap)

\* ArduinoService.setup, called with the device readable or not and the
\* board opening as given, on a service whose board, iterator thread and
\* timers are b, it and tm.
ArdSetupEffect(readable, opened, b, it, tm) ==
    IF SetupRaises(readable, opened) # ""
    THEN /\ board' = b
         /\ iterator_thread' = it
         /\ timers' = tm
         /\ UNCHANGED <<is_mocked, keepalive_thread, deviceWrites>>
    ELSE IF SetupMocks(readable, opened)
    THEN /\ board' = "None"
         /\ is_mocked' = "True"
         /\ iterator_thread' = it
         /\ timers' = tm
         /\ UNCHANGED <<keepalive_thread, deviceWrites>>
    ELSE /\ Len(tm) < MaxTimers
         /\ board' = "open"
         /\ is_mocked' = "False"
         /\ iterator_thread' = "alive"
         \* reset() and the configure_* calls, then _keep_alive()
         /\ deviceWrites' = Written(1)
         /\ timers' = Append(tm, "pending")
         /\ keepalive_thread' = Len(tm) + 1

\* Timer.cancel(): a timer that has not fired yet will not fire; on a timer
\* whose function is running, or has run, it has no effect.
Cancelled(tm, t) ==
    [tm EXCEPT ![t] = IF @ \in {"created", "pending"} THEN "cancelled" ELSE @]

\* A keep-alive timer expires: its thread calls _keep_alive.
TimerFire(t) ==
    /\ t \in 1..Len(timers)
    /\ timers[t] = "pending"
    /\ kaPc = "none"
    /\ timers' = [timers EXCEPT ![t] = "firing"]
    /\ kaTimer' = t
    /\ kaPc' = "send"
    /\ UNCHANGED <<engineVars, writers, loadVars, snapVars, lockVars, nameVars, lifeVars,
                   boardVars, pinVars, ardHist, keepalive_thread>>

\* _keep_alive: if self.keep_alive: self._board.send_sysex(...).  Without a
\* board, or on a board that has been closed, the call raises and the timer
\* thread ends.
KeepAliveSend ==
    /\ kaPc = "send"
    /\ IF ~keep_alive
       THEN kaPc' = "rearm" /\ UNCHANGED <<timers, deviceWrites>>
       ELSE IF board = "open"
       THEN /\ kaPc' = "rearm"
            /\ deviceWrites' = Written(1)
            /\ UNCHANGED timers
       ELSE /\ kaPc' = "none"
            /\ timers' = [timers EXCEPT ![kaTimer] = "finished"]
            /\ UNCHANGED deviceWrites
    /\ UNCHANGED <<engineVars, writers, loadVars, snapVars, lockVars, nameVars, lifeVars,
                   boardVars, pinVars, ardLast, ardOps, keepalive_thread,
                   kaTimer>>

\* _keep_alive: self._keepalive_thread = threading.Timer(interval, ...)
KeepAliveRearm ==
    /\ kaPc = "rearm"
    /\ Len(timers) < MaxTimers
    /\ timers' = Append(timers, "created")
    /\ keepalive_thread' = Len(timers) + 1
    /\ kaPc' = "start"
    /\ UNCHANGED <<engineVars, writers, loadVars, snapVars, lockVars, nameVars, lifeVars,
                   boardVars, pinVars, ardHist, kaTimer>>

\* _keep_alive: self._keepalive_thread.start(); the function returns and
\* the thread of the timer that fired ends.
KeepAliveStart ==
    /\ kaPc = "start"
    /\ timers' = [timers EXCEPT
                    ![keepalive_thread] = IF @ = "created" THEN "pending" ELSE @,
                    ![kaTimer] = "finished"]
    /\ kaPc' = "none"
    /\ UNCHANGED <<engineVars, writers, loadVars, snapVars, lockVars, nameVars, lifeVars,
                   boardVars, pinVars, ardHist, keepalive_thread, kaTimer>>

(***************************************************************************)
(* ArduinoService: the pin tables, the operations on the board, reload and *)
(* the virtualwire callback.                                               *)
(***************************************************************************)
VIRTUALWIRE_DIGITAL_BROADCAST == 6
VIRTUALWIRE_ANALOG_BROADCAST == 7

\* The data arguments of the broadcasts: port_nr, value and pin, msb, lsb.
DigitalArgs == 2
AnalogArgs == 3

\* The sensors and actuator pins of the model.  A sensor has its pin and,
\* for a virtualwire sensor, its source device as attributes.
DigitalSensors == {"d1", "d2"}
AnalogSensors == {"a1"}
VirtualwireDigitalSensors == {"v1", "v2"}
VirtualwireAnalogSensors == {"w1"}
ActuatorPins == {5, 6}
ActuatorTypes == {"o", "p", "s"}

PinOf(sens) ==
    CASE sens = "d1" -> 2
      [] sens = "d2" -> 3
      [] sens = "a1" -> 0
      [] sens = "v1" -> 1
      [] sens = "v2" -> 17
      [] sens = "w1" -> 2

DeviceOf(sens) == IF sens = "w1" THEN 2 ELSE 1

\* An entry of a sensor table and of the actuator table; obj tells whether
\* the entry holds a pin object of the board (None in mocked mode).
SensorEntry(pin_nr, sens) == [pin |-> pin_nr, sens |-> sens]
PinTuple(pin_nr, type, obj) == [pin |-> pin_nr, type |-> type, obj |-> obj]

HasPin(table, pin_nr) == \E i \in 1..Len(table) : table[i].pin = pin_nr

\* table[pin_nr] = entry: a dict keeps a key's place, a new key goes last.
TableSet(table, entry) ==
    IF HasPin(table, entry.pin)
    THEN [i \in 1..Len(table) |->
            IF table[i].pin = entry.pin THEN entry ELSE table[i]]
    ELSE Append(table, entry)

\* The operations the service performs on the board, with the number of
\* messages each one writes.
SideEffectOps ==
    {"write", "reset", "set_pin_mode", "change_digital",
     "send_virtualwire_command",
     "lcd_print", "lcd_set_cursor", "lcd_clear", "lcd_set_reporting",
     "lcd_set_backlight",
     "configure_virtualwire", "configure_sample_rate",
     "configure_instant_digital_reporting", "configure_analog_reference",
     "configure_lcd"}

\* lcd_print of one line: lcd_clear, lcd_set_cursor and _lcd_print_raw.
MessagesOf(op) == IF op = "lcd_print" THEN 3 ELSE 1

\* The operation starts with "if not self._board: return", mutated: write
\* does not.
ReturnsWithoutBoardMutant(op) == op # "write"

\* The operation starts with "if not self._board: return".
ReturnsWithoutBoard(op) == op \in SideEffectOps

\* One of the operations is called; pin_nr is the pin of change_digital.
ArdOp(op, pin_nr) ==
    /\ ardOps < MaxArdOps
    /\ ardOps' = ardOps + 1
    /\ IF board = "None"
       THEN /\ ardLast' = Call(op, pin_nr,
                               IF ReturnsWithoutBoard(op) THEN ""
                               ELSE "AttributeError", FALSE)
            /\ UNCHANGED deviceWrites
       ELSE IF board = "closed"
       THEN /\ ardLast' = Call(op, pin_nr, "SerialException", FALSE)
            /\ UNCHANGED deviceWrites
       ELSE IF op = "change_digital" /\ ~HasPin(act_digital, pin_nr)
       THEN /\ ardLast' = Call(op, pin_nr, "KeyError", FALSE)
            /\ UNCHANGED deviceWrites
       ELSE /\ ardLast' = Call(op, pin_nr, "", TRUE)
            /\ deviceWrites' = Written(MessagesOf(op))
    /\ UNCHANGED <<engineVars, writers, loadVars, snapVars, lockVars, nameVars, lifeVars,
                   boardVars, timerVars, pinVars>>

\* The name of the setup function of an actuator type.
SetupName(type) ==
    CASE type = "o" -> "setup_digital"
      [] type = "p" -> "setup_pwm"
      [] type = "s" -> "setup_servo"

\* setup_digital, setup_pwm, setup_servo: without a board the pin and its
\* type are recorded with no pin object; with a board the pin is taken
\* from it.
SetupActuator(type, pin_nr) ==
    /\ ardOps < MaxArdOps
    /\ ardOps' = ardOps + 1
    /\ IF board = "None"
       THEN /\ act_digital' = TableSet(act_digital, PinTuple(pin_nr, type, FALSE))
            /\ ardLast' = Call(SetupName(type), pin_nr, "", FALSE)
            /\ UNCHANGED deviceWrites
       ELSE IF board = "closed"
       THEN /\ ardLast' = Call(SetupName(type), pin_nr, "SerialException", FALSE)
            /\ UNCHANGED <<act_digital, deviceWrites>>
       ELSE /\ act_digital' = TableSet(act_digital, PinTuple(pin_nr, type, TRUE))
            /\ ardLast' = Call(SetupName(type), pin_nr, "", TRUE)
            /\ deviceWrites' = Written(1)
    /\ UNCHANGED <<engineVars, writers, loadVars, snapVars, lockVars, nameVars, lifeVars,
                   boardVars, timerVars, sens_digital, sens_analog,
                   sens_virtualwire_digital, sens_virtualwire_analog>>

StatusCall(sens, kind, b, n) == [sens |-> sens, kind |-> kind, b |-> b, n |-> n]

\* subscribe_digital / subscribe_analog, called by the sensor's setup():
\* without a board nothing is recorded; with one the sensor is entered in
\* the table and receives the pin's value if the pin has one.
SubscribeSensor(sens, hasValue) ==
    LET digital == sens \in DigitalSensors
        op == IF digital THEN "subscribe_digital" ELSE "subscribe_analog"
        call == IF digital THEN StatusCall(sens, "bool", TRUE, 0)
                ELSE StatusCall(sens, "ratio", FALSE, 0)
    IN
    /\ ardOps < MaxArdOps
    /\ ardOps' = ardOps + 1
    /\ IF board = "None"
       THEN /\ ardLast' = Call(op, PinOf(sens), "", FALSE)
            /\ UNCHANGED <<sens_digital, sens_analog, deviceWrites>>
       ELSE IF board = "closed"
       THEN /\ ardLast' = Call(op, PinOf(sens), "SerialException", FALSE)
            /\ UNCHANGED <<sens_digital, sens_analog, deviceWrites>>
       ELSE /\ IF digital
               THEN /\ sens_digital' =
                         TableSet(sens_digital, SensorEntry(PinOf(sens), sens))
                    /\ UNCHANGED sens_analog
               ELSE /\ sens_analog' =
                         TableSet(sens_analog, SensorEntry(PinOf(sens), sens))
                    /\ UNCHANGED sens_digital
            /\ ardLast' = [Call(op, PinOf(sens), "", TRUE) EXCEPT
                             !.calls = IF hasValue THEN <<call>> ELSE <<>>]
            /\ deviceWrites' = Written(1)
    /\ UNCHANGED <<engineVars, writers, loadVars, snapVars, lockVars, nameVars, lifeVars,
                   boardVars, timerVars, act_digital,
                   sens_virtualwire_digital, sens_virtualwire_analog>>

\* subscribe_virtualwire_digital_broadcast /
\* subscribe_virtualwire_analog_broadcast(sensor, source_device)
SubscribeVirtualwire(sens) ==
    /\ ardOps < MaxArdOps
    /\ ardOps' = ardOps + 1
    /\ IF sens \in VirtualwireDigitalSensors
       THEN /\ sens_virtualwire_digital' =
                 [sens_virtualwire_digital EXCEPT
                    ![DeviceOf(sens)] = Append(@, sens)]
            /\ UNCHANGED sens_virtualwire_analog
       ELSE /\ sens_virtualwire_analog' =
                 [sens_virtualwire_analog EXCEPT
                    ![DeviceOf(sens)] = Append(@, sens)]
            /\ UNCHANGED sens_virtualwire_digital
    /\ ardLast' = Call("subscribe_virtualwire", PinOf(sens), "", FALSE)
    /\ UNCHANGED <<engineVars, writers, loadVars, snapVars, lockVars, nameVars, lifeVars,
                   boardVars, timerVars, act_digital, sens_digital,
                   sens_analog, deviceWrites>>

\* The bit test, mutated: (value & 1) << pin_in_port, as a bool.
BitMutant(value, pin_in_port) == value % 2 = 1

\* value & 1 << pin_in_port, as a bool
Bit(value, pin_in_port) == (value \div (2 ^ pin_in_port)) % 2 = 1

\* The length check of the callback, mutated: no check.
ArgCountOkMutant(command, data) == TRUE

\* The length check of the callback: two data arguments for a digital
\* broadcast, three for an analog one.
ArgCountOk(command, data) ==
    /\ command = VIRTUALWIRE_DIGITAL_BROADCAST => Len(data) = DigitalArgs
    /\ command = VIRTUALWIRE_ANALOG_BROADCAST => Len(data) = AnalogArgs

\* port_nr, value = data; the sensors of the sender whose pin lies in the
\* port receive the pin's bit.
DigitalCalls(sender_address, data) ==
    LET InPort(sens) == data[1] = PinOf(sens) \div 8
        hit == SelectSeq(sens_virtualwire_digital[sender_address], InPort)
    IN  [i \in 1..Len(hit) |->
           StatusCall(hit[i], "bool", Bit(data[2], PinOf(hit[i]) % 8), 0)]

\* pin, msb, lsb = data; value = ((msb << 8) + lsb) / 1023.  The sensors of
\* the sender on that pin receive the value, kept here as its numerator.
AnalogCalls(sender_address, data) ==
    LET OnPin(sens) == PinOf(sens) = data[1]
        hit == SelectSeq(sens_virtualwire_analog[sender_address], OnPin)
    IN  [i \in 1..Len(hit) |->
           StatusCall(hit[i], "ratio", FALSE, data[2] * 256 + data[3])]

\* The messages of the model: broadcasts with one data argument up to the
\* number an analog broadcast has, and a message of another command.
DataValues == {0, 2}
Datas == UNION {[1..n -> DataValues] : n \in 1..AnalogArgs}
Messages ==
    {[sender |-> d, command |-> c, data |-> data] :
        d \in Devices,
        c \in {VIRTUALWIRE_DIGITAL_BROADCAST, VIRTUALWIRE_ANALOG_BROADCAST},
        data \in Datas}
    \cup {[sender |-> d, command |-> 1, data |-> <<0>>] : d \in Devices}

\* "port_nr, value = data" and "pin, msb, lsb = data" raise ValueError for
\* another number of values.
UnpackFails(command, data) ==
    \/ command = VIRTUALWIRE_DIGITAL_BROADCAST /\ Len(data) # DigitalArgs
    \/ command = VIRTUALWIRE_ANALOG_BROADCAST /\ Len(data) # AnalogArgs

\* _virtualwire_message_callback(sender_address, command, *data), called by
\* the board's iterator thread for a message received.
VirtualwireMessage(sender_address, command, data) ==
    LET msg == [sender |-> sender_address, command |-> command, data |-> data]
        base == [Call("virtualwire_message", -1, "", FALSE) EXCEPT
                   !.msg = msg,
                   !.prevDropped = (ardLast.op = "virtualwire_message"
                                    /\ ardLast.logged)]
    IN
    /\ ardOps < MaxArdOps
    /\ ardOps' = ardOps + 1
    /\ board = "open"
    /\ ardLast' =
          IF ~ArgCountOk(command, data)
          THEN [base EXCEPT !.logged = TRUE]
          ELSE IF UnpackFails(command, data)
          THEN [base EXCEPT !.raised = "ValueError"]
          ELSE IF command = VIRTUALWIRE_DIGITAL_BROADCAST
          THEN [base EXCEPT !.calls = DigitalCalls(sender_address, data)]
          ELSE IF command = VIRTUALWIRE_ANALOG_BROADCAST
          THEN [base EXCEPT !.calls = AnalogCalls(sender_address, data)]
          ELSE base
    /\ UNCHANGED <<engineVars, writers, loadVars, snapVars, lockVars, nameVars, lifeVars,
                   boardVars, timerVars, pinVars, deviceWrites>>

\* ArduinoService.setup, called by setup_system.
ArdSetup(readable, opened) ==
    /\ ardOps < MaxArdOps
    /\ ardOps' = ardOps + 1
    /\ is_mocked = "unset"
    /\ ArdSetupEffect(readable, opened, board, iterator_thread, timers)
    /\ ardLast' = [Call("setup", -1, SetupRaises(readable, opened),
                        SetupException(readable, opened) = "")
                   EXCEPT !.arg = IF readable THEN opened ELSE "unreadable"]
    /\ UNCHANGED <<engineVars, writers, loadVars, snapVars, lockVars, nameVars, lifeVars,
                   keep_alive, os_errno, kaPc, kaTimer, pinVars>>

\* An object cleaned up or set up by reload: a sensor, or the actuator of
\* a pin.
SensorObject(entry) == [sens |-> entry.sens, pin |-> entry.pin]
ActuatorObject(entry) == [sens |-> "", pin |-> entry.pin]
Objects(table, Object(_)) == [i \in 1..Len(table) |-> Object(table[i])]

\* The actuator types reload has a setup function for.
Reloadable(entry) == entry.type \in {"p", "o"}

\* ArduinoService.reload.  The actuators are removed from the table and the
\* sensors cleaned up; the service is cleaned up and set up again
\* (AbstractSystemService.reload); the sensors are set up, and then the
\* actuators of the types p and o.  A sensor's cleanup() unsubscribes its
\* pin and its setup() subscribes it.
Reload(readable, opened) ==
    LET afterCancel == IF keepalive_thread # 0
                       THEN Cancelled(timers, keepalive_thread) ELSE timers
        closed == IF board = "open" THEN "closed" ELSE board
        joined == IF iterator_thread = "alive" THEN "joined"
                  ELSE iterator_thread
        raised == SetupRaises(readable, opened)
        again == SelectSeq(act_digital, Reloadable)
        cleanedUp == Objects(act_digital, ActuatorObject)
                     \o Objects(sens_digital, SensorObject)
                     \o Objects(sens_analog, SensorObject)
        setUp == Objects(sens_digital, SensorObject)
                 \o Objects(sens_analog, SensorObject)
                 \o Objects(again, ActuatorObject)
    IN
    /\ ardOps < MaxArdOps
    /\ ardOps' = ardOps + 1
    /\ is_mocked # "unset"
    /\ ArdSetupEffect(readable, opened, closed, joined, afterCancel)
    /\ IF raised # ""
       THEN /\ act_digital' = <<>>
            /\ sens_digital' = <<>>
            /\ sens_analog' = <<>>
            /\ ardLast' = [Call("reload", -1, raised, FALSE) EXCEPT
                             !.cleaned = cleanedUp]
       ELSE /\ sens_digital' = IF board' = "open" THEN sens_digital ELSE <<>>
            /\ sens_analog' = IF board' = "open" THEN sens_analog ELSE <<>>
            /\ act_digital' =
                  [i \in 1..Len(again) |->
                     PinTuple(again[i].pin, again[i].type, board' = "open")]
            /\ ardLast' = [Call("reload", -1, "", board' = "open") EXCEPT
                             !.cleaned = cleanedUp,
                             !.setups = setUp,
                             !.logged = (Len(again) # Len(act_digital))]
    /\ UNCHANGED <<engineVars, writers, loadVars, snapVars, lockVars, nameVars, lifeVars,
                   keep_alive, os_errno, kaPc, kaTimer,
                   sens_virtualwire_digital, sens_virtualwire_analog>>

\* table.pop(pin_nr, None): the entry of the pin is removed if there is one.
TablePop(table, pin_nr) == SelectSeq(table, LAMBDA e : e.pin # pin_nr)

Contains(list, x) == \E i \in 1..Len(list) : list[i] = x

\* list.remove(x) on a list that contains x: the first x is removed.
ListRemove(list, x) ==
    LET i == CHOOSE k \in 1..Len(list) :
                /\ list[k] = x
                /\ \A j \in 1..(k - 1) : list[j] # x
    IN  SubSeq(list, 1, i - 1) \o SubSeq(list, i + 1, Len(list))

\* The operations that release one pin, with the table each one pops from.
PinCleanupOps ==
    {"unsubscribe_digital", "unsubscribe_analog", "cleanup_digital_actuator"}

\* unsubscribe_digital, unsubscribe_analog, cleanup_digital_actuator:
\* pin = table.pop(pin_nr, None)
UnsubscribePin(op, pin_nr) ==
    /\ ardOps < MaxArdOps
    /\ ardOps' = ardOps + 1
    /\ sens_digital' = IF op = "unsubscribe_digital"
                       THEN TablePop(sens_digital, pin_nr) ELSE sens_digital
    /\ sens_analog' = IF op = "unsubscribe_analog"
                      THEN TablePop(sens_analog, pin_nr) ELSE sens_analog
    /\ act_digital' = IF op = "cleanup_digital_actuator"
                      THEN TablePop(act_digital, pin_nr) ELSE act_digital
    /\ ardLast' = Call(op, pin_nr, "", FALSE)
    /\ UNCHANGED <<engineVars, writers, loadVars, snapVars, lockVars, nameVars, lifeVars,
                   boardVars, timerVars, deviceWrites,
                   sens_virtualwire_digital, sens_virtualwire_analog>>

\* unsubscribe_virtualwire_digital_broadcast /
\* unsubscribe_virtualwire_analog_broadcast(sensor, source_device):
\*   self._sens_virtualwire_...[source_device].remove(sensor)
\* list.remove raises ValueError when the sensor is not in the list.
UnsubscribeVirtualwire(sens) ==
    LET digital == sens \in VirtualwireDigitalSensors
        op == IF digital THEN "unsubscribe_virtualwire_digital_broadcast"
              ELSE "unsubscribe_virtualwire_analog_broadcast"
        table == IF digital THEN sens_virtualwire_digital
                 ELSE sens_virtualwire_analog
        there == Contains(table[DeviceOf(sens)], sens)
        popped == IF there
                  THEN [table EXCEPT ![DeviceOf(sens)] = ListRemove(@, sens)]
                  ELSE table
    IN
    /\ ardOps < MaxArdOps
    /\ ardOps' = ardOps + 1
    /\ IF digital
       THEN sens_virtualwire_digital' = popped
            /\ UNCHANGED sens_virtualwire_analog
       ELSE sens_virtualwire_analog' = popped
            /\ UNCHANGED sens_virtualwire_digital
    /\ ardLast' = [Call(op, PinOf(sens), IF there THEN "" ELSE "ValueError",
                        FALSE) EXCEPT !.arg = sens]
    /\ UNCHANGED <<engineVars, writers, loadVars, snapVars, lockVars, nameVars, lifeVars,
                   boardVars, timerVars, deviceWrites,
                   act_digital, sens_digital, sens_analog>>

\* ArduinoService.cleanup(): the board is closed, the iterator thread is
\* joined and the keep-alive timer is cancelled.
ArdCleanup ==
    /\ ardOps < MaxArdOps
    /\ ardOps' = ardOps + 1
    /\ board' = IF board = "open" THEN "closed" ELSE board
    /\ iterator_thread' = IF iterator_thread = "alive" THEN "joined"
                          ELSE iterator_thread
    /\ timers' = IF keepalive_thread # 0
                 THEN Cancelled(timers, keepalive_thread) ELSE timers
    /\ ardLast' = Call("cleanup", -1, "", FALSE)
    /\ UNCHANGED <<engineVars, writers, loadVars, snapVars, lockVars, nameVars, lifeVars,
                   is_mocked, keep_alive, os_errno, keepalive_thread, kaPc,
                   kaTimer, pinVars, deviceWrites>>

\* The threads that write to the board: the worker thread (the actuators'
\* status changes), the thread of the keep-alive timer, and the thread
\* that calls setup() or reload().
Threads == {"worker", "timer", "caller"}

\* The calls setup() makes once it has started the iterator thread.
SetupCalls ==
    <<"reset", "configure_sample_rate",
      "configure_instant_digital_reporting", "configure_virtualwire",
      "configure_lcd", "configure_analog_reference", "_keep_alive">>

\* The operations the worker thread runs: a serial write, a sysex message
\* and a pin write.
WorkerOps == {"write", "send_virtualwire_command", "change_digital"}

NoOp == [op |-> "", pin |-> -1]

\* The operation writes to the board inside "with self._lock:".
HoldsLock(op) ==
    op \notin {"configure_sample_rate",
               "configure_instant_digital_reporting", "_keep_alive"}

\* The operation thread t is in reaches its write to the board:
\* _keep_alive writes if keep_alive is set, change_digital raises KeyError
\* for a pin that is not in the actuator table.
Writes(t) ==
    /\ thOp[t].op = "_keep_alive" => keep_alive
    /\ thOp[t].op = "change_digital" => HasPin(act_digital, thOp[t].pin)

\* Thread t calls op and passes "if not self._board: return"; an operation
\* that takes the lock waits until the lock is free.
Enter(t, op, pin_nr) ==
    /\ board = "open"
    /\ HoldsLock(op) => lock = "free"
    /\ lock' = IF HoldsLock(op) THEN t ELSE lock
    /\ thPc' = [thPc EXCEPT ![t] = "entered"]
    /\ thOp' = [thOp EXCEPT ![t] = [op |-> op, pin |-> pin_nr]]

\* The worker thread calls one of its operations.
WorkerCall(op, pin_nr) ==
    /\ thPc["worker"] = "idle"
    /\ Enter("worker", op, pin_nr)
    /\ UNCHANGED <<engineVars, writers, loadVars, snapVars, nameVars,
                   lifeVars, ardVars, setupI>>

\* The keep-alive timer expires and its thread calls _keep_alive.
KeepAliveFire ==
    /\ thPc["timer"] = "armed"
    /\ Enter("timer", "_keep_alive", -1)
    /\ UNCHANGED <<engineVars, writers, loadVars, snapVars, nameVars,
                   lifeVars, ardVars, setupI>>

\* setup() makes its next call; configure_analog_reference returns at
\* once if analog_reference is -1.
SetupCall(analog_reference) ==
    LET op == SetupCalls[setupI + 1] IN
    /\ thPc["caller"] = "idle"
    /\ setupI < Len(SetupCalls)
    /\ setupI' = setupI + 1
    /\ IF op = "configure_analog_reference" /\ analog_reference = -1
       THEN UNCHANGED <<lock, thPc, thOp>>
       ELSE Enter("caller", op, -1)
    /\ UNCHANGED <<engineVars, writers, loadVars, snapVars, nameVars,
                   lifeVars, ardVars>>

\* Thread t begins its write to the board (send_sysex, sp.write,
\* pin.write).
BoardWrite(t) ==
    /\ thPc[t] = "entered"
    /\ Writes(t)
    /\ thPc' = [thPc EXCEPT ![t] = "writing"]
    /\ UNCHANGED <<engineVars, writers, loadVars, snapVars, nameVars,
                   lifeVars, ardVars, lock, thOp, setupI>>

\* Thread t ends its operation: the write is complete, or there was none;
\* the with block releases the lock; _keep_alive starts the next timer.
Return(t) ==
    LET idle == IF t = "timer" THEN "none" ELSE "idle"
        left == [thPc EXCEPT ![t] = idle]
    IN
    /\ \/ thPc[t] = "writing" /\ deviceWrites' = Written(1)
       \/ thPc[t] = "entered" /\ ~Writes(t) /\ UNCHANGED deviceWrites
    /\ lock' = IF lock = t THEN "free" ELSE lock
    /\ thPc' = IF thOp[t].op = "_keep_alive"
               THEN [left EXCEPT !["timer"] = "armed"] ELSE left
    /\ thOp' = [thOp EXCEPT ![t] = NoOp]
    /\ UNCHANGED <<engineVars, writers, loadVars, snapVars, nameVars,
                   lifeVars, boardVars, timerVars, pinVars, ardLast, ardOps,
                   setupI>>

\* An actuator is set up once setup() has returned (by the object's
\* setup(), or by reload() restoring it): the whole call holds the lock.
LockedSetupActuator(type, pin_nr) ==
    /\ setupI = Len(SetupCalls)
    /\ thPc["caller"] = "idle"
    /\ lock = "free"
    /\ SetupActuator(type, pin_nr)

LockIdle ==
    /\ lock = "None"
    /\ thPc = [t \in Threads |-> IF t = "timer" THEN "none" ELSE "idle"]
    /\ thOp = [t \in Threads |-> NoOp]
    /\ setupI = 0

ArdIdle ==
    /\ board = "None"
    /\ is_mocked = "unset"
    /\ iterator_thread = "None"
    /\ keep_alive = TRUE
    /\ os_errno = TRUE
    /\ timers = <<>>
    /\ keepalive_thread = 0
    /\ kaPc = "none"
    /\ kaTimer = 0
    /\ act_digital = <<>>
    /\ sens_digital = <<>>
    /\ sens_analog = <<>>
    /\ sens_virtualwire_digital = [d \in Devices |-> <<>>]
    /\ sens_virtualwire_analog = [d \in Devices |-> <<>>]
    /\ deviceWrites = 0
    /\ ardLast = NoCall
    /\ ardOps = 0

(***************************************************************************)
(* Construction and teardown of the System (section 4.5):                  *)
(* System.__init__ and System.cleanup, with the worker thread and the      *)
(* keep-alive timer of the ArduinoService as the other threads.            *)
(***************************************************************************)
LifeObjects == {"lamp", "temp"}

Step(step, obj) == [step |-> step, obj |-> obj, worker |-> workerAlive]

\* The statement of __init__ that follows the given one, mutated: the
\* worker thread is started right after the services are initialised.
InitNextMutant(step) ==
    CASE step = "begin" -> "logging"
      [] step = "logging" -> "worker_created"
      [] step = "worker_created" -> "services"
      [] step = "services" ->
            IF worker_autostart THEN "worker_start" ELSE "namespace"
      [] step = "worker_start" -> "namespace"
      [] step = "namespace" -> "config"
      [] step = "config" -> "user_services"
      [] step = "user_services" -> "post_init"
      [] OTHER -> "running"

\* The statement of __init__ that follows the given one.
InitNext(step) ==
    CASE step = "begin" -> "logging"
      [] step = "logging" -> "worker_created"
      [] step = "worker_created" -> "services"
      [] step = "services" -> "namespace"
      [] step = "namespace" -> "config"
      [] step = "config" -> "user_services"
      [] step = "user_services" ->
            IF worker_autostart THEN "worker_start" ELSE "post_init"
      [] step = "worker_start" -> "post_init"
      [] OTHER -> "running"

\* The statement of cleanup that follows the given one, mutated: the worker
\* thread is stopped before the objects are cleaned up.
CleanupNextMutant(step) ==
    CASE step = "running" -> "pre_exit"
      [] step = "pre_exit" -> "timers"
      [] step = "timers" -> "worker_stop"
      [] step = "worker_stop" -> "objects"
      [] step = "objects" -> "user_cleanup"
      [] step = "user_cleanup" -> "system_cleanup"
      [] OTHER -> "exited"

\* The statement of cleanup that follows the given one.
CleanupNext(step) ==
    CASE step = "running" -> "pre_exit"
      [] step = "pre_exit" -> "timers"
      [] step = "timers" -> "objects"
      [] step = "objects" -> "user_cleanup"
      [] step = "user_cleanup" -> "worker_stop"
      [] step = "worker_stop" -> "system_cleanup"
      [] OTHER -> "exited"

\* A statement of __init__ with no effect on the modelled state besides
\* having been executed.
InitPlain(step) ==
    /\ lifePc = step
    /\ lifeLog' = Append(lifeLog, Step(step, ""))
    /\ lifePc' = InitNext(step)
    /\ UNCHANGED <<engineVars, writers, loadVars, snapVars, lockVars, nameVars, ardVars,
                   worker_autostart, workerAlive, workerStop, cleaned>>

\* System() is called.
InitBegin ==
    /\ lifePc = "begin"
    /\ lifePc' = InitNext("begin")
    /\ UNCHANGED <<engineVars, writers, loadVars, snapVars, lockVars, nameVars, ardVars, lifeLog,
                   worker_autostart, workerAlive, workerStop, cleaned>>

\* self._initialize_logging()
InitLogging == InitPlain("logging")

\* self.worker_thread = StatusWorkerThread(...): created, not started.
InitWorkerCreated == InitPlain("worker_created")

\* self._initialize_services()
InitServices == InitPlain("services")

\* self._initialize_namespace(load_state): the objects are set up, and the
\* first of them that requests the ArduinoService has it set up
\* (request_service).
InitNamespace(readable) ==
    /\ lifePc = "namespace"
    /\ ArdSetupEffect(readable, "ok", board, iterator_thread, timers)
    /\ ardLast' = Call("setup", -1, "", readable)
    /\ UNCHANGED <<kaPc, kaTimer, pinVars, ardOps>>
    /\ lifeLog' = Append(lifeLog, Step("namespace", ""))
    /\ lifePc' = InitNext("namespace")
    /\ UNCHANGED <<engineVars, writers, loadVars, snapVars, lockVars, nameVars, keep_alive, os_errno,
                   worker_autostart, workerAlive, workerStop, cleaned>>

\* if load_config: ... getattr(self, obj_name).status = status
InitConfig == InitPlain("config")

\* self._setup_user_services()
InitUserServices == InitPlain("user_services")

\* if self.worker_autostart: self.worker_thread.start()
InitWorkerStart ==
    /\ lifePc = "worker_start"
    /\ workerAlive' = TRUE
    /\ lifeLog' = Append(lifeLog, Step("worker_start", ""))
    /\ lifePc' = InitNext("worker_start")
    /\ UNCHANGED <<engineVars, writers, loadVars, snapVars, lockVars, nameVars, ardVars,
                   worker_autostart, workerStop, cleaned>>

\* self.post_init_trigger = True
InitPostInit == InitPlain("post_init")

\* A statement of cleanup with no effect on the modelled state besides
\* having been executed.
CleanupPlain(step) ==
    /\ lifePc = step
    /\ lifeLog' = Append(lifeLog, Step(step, ""))
    /\ lifePc' = CleanupNext(step)
    /\ UNCHANGED <<engineVars, writers, loadVars, snapVars, lockVars, nameVars, ardVars,
                   worker_autostart, workerAlive, workerStop, cleaned>>

\* System.cleanup() is called on the constructed system.
CleanupBegin ==
    /\ lifePc = "running"
    /\ lifePc' = CleanupNext("running")
    /\ UNCHANGED <<engineVars, writers, loadVars, snapVars, lockVars, nameVars, ardVars, lifeLog,
                   worker_autostart, workerAlive, workerStop, cleaned>>

\* self.pre_exit_trigger = True
CleanupPreExit == CleanupPlain("pre_exit")

\* for t in threading.enumerate(): if isinstance(t, TimerClass): t.cancel()
\* The threads enumerated are the started ones that have not ended.
CleanupTimers ==
    /\ lifePc = "timers"
    /\ timers' = [t \in 1..Len(timers) |->
                    IF timers[t] = "pending" THEN "cancelled" ELSE timers[t]]
    /\ lifeLog' = Append(lifeLog, Step("timers", ""))
    /\ lifePc' = CleanupNext("timers")
    /\ UNCHANGED <<engineVars, writers, loadVars, snapVars, lockVars, nameVars, boardVars, pinVars, ardHist,
                   keepalive_thread, kaPc, kaTimer,
                   worker_autostart, workerAlive, workerStop, cleaned>>

\* for i in self.objects: i.cleanup()  -- objects is a set: any order.
CleanupObject(o) ==
    /\ lifePc = "objects"
    /\ o \in LifeObjects \ cleaned
    /\ cleaned' = cleaned \cup {o}
    /\ lifeLog' = Append(lifeLog, Step("objects", o))
    /\ lifePc' = IF cleaned' = LifeObjects THEN CleanupNext("objects")
                 ELSE "objects"
    /\ UNCHANGED <<engineVars, writers, loadVars, snapVars, lockVars, nameVars, ardVars,
                   worker_autostart, workerAlive, workerStop>>

\* i.cleanup() raises: nothing in System.cleanup catches the exception,
\* which ends the call.
CleanupObjectRaises(o) ==
    /\ lifePc = "objects"
    /\ o \in LifeObjects \ cleaned
    /\ cleaned' = cleaned \cup {o}
    /\ lifeLog' = Append(lifeLog, Step("objects", o))
    /\ lifePc' = "raised"
    /\ UNCHANGED <<engineVars, writers, loadVars, snapVars, lockVars, nameVars, ardVars,
                   worker_autostart, workerAlive, workerStop>>

\* The user services' cleanup_system()
CleanupUserServices == CleanupPlain("user_cleanup")

\* ser.cleanup_system() of a user service raises: the exception ends
\* System.cleanup.
CleanupUserServicesRaises ==
    /\ lifePc = "user_cleanup"
    /\ lifeLog' = Append(lifeLog, Step("user_cleanup", ""))
    /\ lifePc' = "raised"
    /\ UNCHANGED <<engineVars, writers, loadVars, snapVars, lockVars, nameVars, ardVars,
                   worker_autostart, workerAlive, workerStop, cleaned>>

\* if self.worker_thread.is_alive(): self.worker_thread.stop()
\* stop() asks the worker to stop and waits for the thread to end.
CleanupWorkerStop ==
    /\ lifePc = "worker_stop"
    /\ IF workerAlive
       THEN /\ workerStop' = TRUE
            /\ lifePc' = "worker_join"
            /\ UNCHANGED lifeLog
       ELSE /\ lifeLog' = Append(lifeLog, Step("worker_stop", ""))
            /\ lifePc' = CleanupNext("worker_stop")
            /\ UNCHANGED workerStop
    /\ UNCHANGED <<engineVars, writers, loadVars, snapVars, lockVars, nameVars, ardVars,
                   worker_autostart, workerAlive, cleaned>>

\* The worker thread sees the request and ends.
WorkerExit ==
    /\ workerAlive
    /\ workerStop
    /\ workerAlive' = FALSE
    /\ UNCHANGED <<engineVars, writers, loadVars, snapVars, lockVars, nameVars, ardVars, lifePc,
                   lifeLog, worker_autostart, workerStop, cleaned>>

\* stop() returns.
CleanupWorkerJoined ==
    /\ lifePc = "worker_join"
    /\ ~workerAlive
    /\ lifeLog' = Append(lifeLog, Step("worker_stop", ""))
    /\ lifePc' = CleanupNext("worker_stop")
    /\ UNCHANGED <<engineVars, writers, loadVars, snapVars, lockVars, nameVars, ardVars,
                   worker_autostart, workerAlive, workerStop, cleaned>>

\* The system services' cleanup_system().  ArduinoService.cleanup:
\*   if self._board: self._board.exit()
\*   if self._iterator_thread and ...is_alive(): self._iterator_thread.join()
CleanupSystemServices ==
    /\ lifePc = "system_cleanup"
    /\ board' = IF board = "open" THEN "closed" ELSE board
    /\ iterator_thread' = IF iterator_thread = "alive" THEN "joined"
                          ELSE iterator_thread
    /\ lifeLog' = Append(lifeLog, Step("system_cleanup", ""))
    /\ lifePc' = "keepalive_cancel"
    /\ UNCHANGED <<engineVars, writers, loadVars, snapVars, lockVars, nameVars, timerVars, pinVars, ardHist,
                   is_mocked, keep_alive, os_errno,
                   worker_autostart, workerAlive, workerStop, cleaned>>

\* ArduinoService.cleanup:
\*   if self._keepalive_thread: self._keepalive_thread.cancel()
\* and System.cleanup returns.
CleanupKeepAliveCancel ==
    /\ lifePc = "keepalive_cancel"
    /\ timers' = IF keepalive_thread # 0
                 THEN Cancelled(timers, keepalive_thread) ELSE timers
    /\ lifePc' = CleanupNext("system_cleanup")
    /\ UNCHANGED <<engineVars, writers, loadVars, snapVars, lockVars, nameVars, boardVars, pinVars, ardHist,
                   keepalive_thread, kaPc, kaTimer, lifeLog,
                   worker_autostart, workerAlive, workerStop, cleaned>>

LifeIdle ==
    /\ lifePc = "begin"
    /\ lifeLog = <<>>
    /\ worker_autostart = TRUE
    /\ workerAlive = FALSE
    /\ workerStop = FALSE
    /\ cleaned = {}

NamesIdle ==
    /\ namespace = <<>>
    /\ regLog = <<>>
    /\ nsDeleted = {}
    /\ nsOps = 0
    /\ cmdLast = NoCommand
    /\ gotName = NoName

SnapIdle ==
    /\ mutex = "free"
    /\ capI = 0
    /\ snapConfig = Empty
    /\ capStart = Empty

OtherIdle == NamesIdle /\ LifeIdle /\ ArdIdle /\ SnapIdle /\ LockIdle

(***************************************************************************)
(* save_state (system.py, lines 279-284) against the queue's mutex.  The   *)
(* with statement opens the file, then takes worker_thread.queue.mutex;    *)
(* its body copies the object list, builds the config and pickles; the     *)
(* mutex is released and the file closed when the body is left.  The       *)
(* queue's put and get take the same mutex (section 5); the worker applies *)
(* a popped request without it (section 4.3).                              *)
(***************************************************************************)
\* The objects whose user_editable attribute is true: the sensors.
SnapEditable(g) == Sensors(g)

\* The cascade requests of the request the worker is applying.
InflightCascades ==
    CascadesFrom(graph, Dependents(graph, inflight.target),
                 [status EXCEPT ![inflight.target] = inflight.value])

\* A producer's put: it needs the mutex.
SnapEnqueue(t, v) == mutex = "free" /\ Enqueue(t, v)

\* The worker's get: it needs the mutex.
SnapWorkerPop == mutex = "free" /\ WorkerPop

\* The worker applies the popped request: the status is written without
\* the mutex; only the put of a cascade request needs it.
SnapWorkerApply ==
    /\ workerPc = "busy"
    /\ mutex = "free" \/ Skips(inflight) \/ InflightCascades = <<>>
    /\ WorkerApply

\* Steps 3 and 4 of the worker while save_state holds the mutex: the
\* status is written, and the worker blocks in the put of the first
\* cascade request.
SnapWorkerWrite ==
    /\ workerPc = "busy"
    /\ mutex # "free"
    /\ ~Skips(inflight)
    /\ InflightCascades # <<>>
    /\ LET t == inflight.target
           act == graph.kind[t] = "actuator"
       IN  /\ status' = [status EXCEPT ![t] = inflight.value]
           /\ driverCalls' =
                 IF act /\ inflight.value
                 THEN [driverCalls EXCEPT ![t] = Min(@ + 1, CallCap)]
                 ELSE driverCalls
           /\ lastStep' = [kind |-> "apply", target |-> t,
                           recomputed |-> {Dependents(graph, t)[i] :
                                 i \in 1..Len(Dependents(graph, t))},
                           cascades |-> InflightCascades,
                           sideEffect |-> act]
    /\ writers' = writers \cup {"worker"}
    /\ workerPc' = "blocked"
    /\ UNCHANGED <<graph, queue, inflight, budget, enqLog, flushPc,
                   enqAfterFlush, loadVars, otherVars>>

\* Step 5 of the blocked worker once the mutex is free: the cascade
\* requests are put at the tail of the queue.
SnapWorkerPut ==
    /\ workerPc = "blocked"
    /\ mutex = "free"
    /\ queue' = queue \o lastStep.cascades
    /\ workerPc' = "idle"
    /\ inflight' = NoRequest
    /\ UNCHANGED <<graph, status, budget, enqLog, flushPc, enqAfterFlush,
                   driverCalls, lastStep, writers, loadVars, otherVars>>

\* The with statement takes the mutex after the file has been opened.
SnapLock ==
    /\ savePc = "dump"
    /\ mutex = "free"
    /\ mutex' = "save"
    /\ capStart' = status
    /\ capI' = 1
    /\ snapConfig' = Empty
    /\ savePc' = "capture"
    /\ UNCHANGED <<engineVars, writers, nameVars, lifeVars, ardVars, lockVars,
                   filename, num_state_backups, files, now, progMtime,
                   objects, saveI, saveMtime, saves, startedEmpty, atSave,
                   lc>>

\* One iteration of the config comprehension over obj_list: the status of
\* a user-editable object is read and stored under its name.
SnapCapture ==
    /\ savePc = "capture"
    /\ LET o == graph.order[capI]
       IN  snapConfig' = IF o \in SnapEditable(graph)
                         THEN Bind(snapConfig, o, status[o])
                         ELSE snapConfig
    /\ IF capI < Len(graph.order)
       THEN capI' = capI + 1 /\ UNCHANGED savePc
       ELSE capI' = 0 /\ savePc' = "pickle"
    /\ UNCHANGED <<engineVars, writers, nameVars, lifeVars, ardVars, lockVars,
                   filename, num_state_backups, files, now, progMtime,
                   objects, saveI, saveMtime, saves, startedEmpty, atSave,
                   lc, mutex, capStart>>

\* pickle.dump((STATEFILE_VERSION, (obj_list, config)), file): the objects
\* are written as they are now, the config as it was built.
SnapDump ==
    /\ savePc = "pickle"
    /\ files' = [files EXCEPT ![0] =
                    [exists |-> TRUE, complete |-> TRUE,
                     version |-> STATEFILE_VERSION, objs |-> status,
                     config |-> snapConfig, id |-> saves + 1]]
    /\ saveMtime' = now
    /\ atSave' = status
    /\ savePc' = "release"
    /\ UNCHANGED <<engineVars, writers, nameVars, lifeVars, ardVars, lockVars,
                   filename, num_state_backups, now, progMtime, objects,
                   saveI, saves, startedEmpty, lc, snapVars>>

\* The with statement is left: the mutex is released, the file is closed.
SnapRelease ==
    /\ savePc = "release"
    /\ mutex' = "free"
    /\ saves' = saves + 1
    /\ savePc' = "idle"
    /\ UNCHANGED <<engineVars, writers, nameVars, lifeVars, ardVars, lockVars,
                   filename, num_state_backups, files, now, progMtime,
                   objects, saveI, saveMtime, startedEmpty, atSave, lc,
                   capI, snapConfig, capStart>>

(***************************************************************************)
(* Initial states and specifications.                                      *)
(***************************************************************************)
\* The snapshot machinery at rest, for the specification of the worker.
LoadIdle ==
    /\ filename = ""
    /\ num_state_backups = 0
    /\ files = [i \in Suffixes |-> NoFile]
    /\ now = 1
    /\ progMtime = 1
    /\ objects = [o \in StaticObjects |-> DefaultStatus]
    /\ savePc = "idle"
    /\ saveI = 0
    /\ saveMtime = 0
    /\ saves = 0
    /\ startedEmpty = TRUE
    /\ atSave = Empty
    /\ lc = LcIdle

Init == EngineInit /\ LoadIdle /\ OtherIdle

Next ==
    \/ \E t \in Sensors(graph), v \in BOOLEAN : Enqueue(t, v)
    \/ WorkerPop
    \/ WorkerApply
    \/ FlushCall
    \/ FlushReturn

Spec == Init /\ [][Next]_vars

\* The worker thread is a running thread: a step it can take, it takes.
FairSpec == Spec /\ WF_vars(WorkerPop) /\ WF_vars(WorkerApply)

\* The worker at rest, for the specification of the snapshot machinery.
EngineIdle ==
    /\ graph = AlarmGraph
    /\ status = [o \in Names(AlarmGraph) |-> FALSE]
    /\ queue = <<>>
    /\ workerPc = "idle"
    /\ inflight = NoRequest
    /\ budget = 0
    /\ enqLog = <<>>
    /\ flushPc = "none"
    /\ enqAfterFlush = FALSE
    /\ driverCalls = [o \in Actuators(AlarmGraph) |-> 0]
    /\ lastStep = NoStep
    /\ writers = {}

InitLoad ==
    /\ EngineIdle
    /\ filename \in {"", "state"}
    /\ num_state_backups \in 0..MaxBackups
    /\ files \in {[i \in Suffixes |-> IF i = 0 THEN f ELSE NoFile]
                    : f \in IF filename = "" THEN {NoFile}
                            ELSE {NoFile} \cup OldFiles}
    /\ now = 1
    /\ progMtime \in {0, 1}
    /\ objects = [o \in StaticObjects |-> DefaultStatus]
    /\ savePc = "idle"
    /\ saveI = 0
    /\ saveMtime = (IF files[0].exists THEN 1 ELSE 0)
    /\ saves = 0
    /\ startedEmpty = ~files[0].exists
    /\ atSave = Empty
    /\ lc = LcIdle
    /\ OtherIdle

NextLoad ==
    \/ SaveStart
    \/ SaveRename
    \/ SaveOpen
    \/ SaveDump
    \/ \E o \in StaticObjects, v \in StatusValues : RuntimeChange(o, v)
    \/ Tick
    \/ TouchProgram
    \/ \E a, b, c, d \in BOOLEAN : LoadOrCreate(a, b, c, d)
    \/ \E a \in {"y", "n", "x"} : Answer(a)
    \/ LcReturn

SpecLoad == InitLoad /\ [][NextLoad]_vars

\* The running system of the worker's specification with a state file.
InitSnap ==
    /\ EngineInit
    /\ graph = AlarmGraph
    /\ filename = "state"
    /\ num_state_backups = 1
    /\ files = [i \in Suffixes |-> NoFile]
    /\ now = 1
    /\ progMtime = 1
    /\ objects = [o \in StaticObjects |-> DefaultStatus]
    /\ savePc = "idle"
    /\ saveI = 0
    /\ saveMtime = 0
    /\ saves = 0
    /\ startedEmpty = TRUE
    /\ atSave = Empty
    /\ lc = LcIdle
    /\ OtherIdle

NextSnap ==
    \/ \E t \in Sensors(graph), v \in BOOLEAN : SnapEnqueue(t, v)
    \/ SnapWorkerPop
    \/ SnapWorkerApply
    \/ SnapWorkerWrite
    \/ SnapWorkerPut
    \/ SaveStart
    \/ SaveRename
    \/ SaveOpen
    \/ SnapLock
    \/ SnapCapture
    \/ SnapDump
    \/ SnapRelease

SpecSnap == InitSnap /\ [][NextSnap]_vars

InitNames == EngineIdle /\ LoadIdle /\ OtherIdle

NextNames ==
    \/ \E cls \in ObjectClasses, name \in GivenNames, sname \in SystemNames :
          RegisterObject(cls, name, sname)
    \/ \E fname \in FunctionNames : RegisterServiceFunction(fname)
    \/ \E key \in CommandKeys, v \in {0, 1} : CmdExecAssign(key, v)
    \/ \E cmd \in Commands, ev \in EvalOutcomes, run \in RunOutcomes,
          key \in {<<>>, <<Word("x")>>} : CmdExec(cmd, ev, run, key)

SpecNames == InitNames /\ [][NextNames]_vars

\* get_unique_name on the namespaces of Namespaces.
InitUnique ==
    /\ EngineIdle /\ LoadIdle /\ LifeIdle /\ ArdIdle /\ SnapIdle /\ LockIdle
    /\ namespace \in Namespaces
    /\ regLog = <<>>
    /\ nsDeleted = {}
    /\ nsOps = 0
    /\ cmdLast = NoCommand
    /\ gotName = NoName

NextUnique ==
    \E cls \in ObjectClasses, name \in GivenNames, sname \in SystemNames :
       GetUniqueName(cls, name, sname)

SpecUnique == InitUnique /\ [][NextUnique]_vars

InitLife ==
    /\ EngineIdle /\ LoadIdle /\ NamesIdle /\ SnapIdle /\ LockIdle
    /\ lifePc = "begin"
    /\ lifeLog = <<>>
    /\ worker_autostart \in BOOLEAN
    /\ workerAlive = FALSE
    /\ workerStop = FALSE
    /\ cleaned = {}
    /\ board = "None"
    /\ is_mocked = "unset"
    /\ iterator_thread = "None"
    /\ keep_alive \in BOOLEAN
    /\ os_errno = TRUE
    /\ timers = <<>>
    /\ keepalive_thread = 0
    /\ kaPc = "none"
    /\ kaTimer = 0
    /\ act_digital = <<>>
    /\ sens_digital = <<>>
    /\ sens_analog = <<>>
    /\ sens_virtualwire_digital = [d \in Devices |-> <<>>]
    /\ sens_virtualwire_analog = [d \in Devices |-> <<>>]
    /\ deviceWrites = 0
    /\ ardLast = NoCall
    /\ ardOps = 0

NextLife ==
    \/ InitBegin
    \/ InitLogging
    \/ InitWorkerCreated
    \/ InitServices
    \/ \E readable \in BOOLEAN : InitNamespace(readable)
    \/ InitConfig
    \/ InitUserServices
    \/ InitWorkerStart
    \/ InitPostInit
    \/ CleanupBegin
    \/ CleanupPreExit
    \/ CleanupTimers
    \/ \E o \in LifeObjects : CleanupObject(o)
    \/ \E o \in LifeObjects : CleanupObjectRaises(o)
    \/ CleanupUserServices
    \/ CleanupUserServicesRaises
    \/ CleanupWorkerStop
    \/ WorkerExit
    \/ CleanupWorkerJoined
    \/ CleanupSystemServices
    \/ CleanupKeepAliveCancel
    \/ \E t \in 1..MaxTimers : TimerFire(t)
    \/ KeepAliveSend
    \/ KeepAliveRearm
    \/ KeepAliveStart

SpecLife == InitLife /\ [][NextLife]_vars

InitArduino ==
    /\ EngineIdle /\ LoadIdle /\ NamesIdle /\ LifeIdle /\ SnapIdle /\ LockIdle
    /\ board = "None"
    /\ is_mocked = "unset"
    /\ iterator_thread = "None"
    /\ keep_alive = TRUE
    /\ os_errno \in BOOLEAN
    /\ timers = <<>>
    /\ keepalive_thread = 0
    /\ kaPc = "none"
    /\ kaTimer = 0
    /\ act_digital = <<>>
    /\ sens_digital = <<>>
    /\ sens_analog = <<>>
    /\ sens_virtualwire_digital = [d \in Devices |-> <<>>]
    /\ sens_virtualwire_analog = [d \in Devices |-> <<>>]
    /\ deviceWrites = 0
    /\ ardLast = NoCall
    /\ ardOps = 0

NextArduino ==
    \/ \E readable \in BOOLEAN, opened \in OpenResults :
          ArdSetup(readable, opened)
    \/ \E op \in SideEffectOps :
          \E pin_nr \in IF op = "change_digital" THEN ActuatorPins ELSE {-1} :
             ArdOp(op, pin_nr)
    \/ \E type \in ActuatorTypes, pin_nr \in ActuatorPins :
          SetupActuator(type, pin_nr)
    \/ \E sens \in DigitalSensors \cup AnalogSensors, hasValue \in BOOLEAN :
          SubscribeSensor(sens, hasValue)
    \/ \E sens \in VirtualwireDigitalSensors \cup VirtualwireAnalogSensors :
          SubscribeVirtualwire(sens)
    \/ \E m \in Messages : VirtualwireMessage(m.sender, m.command, m.data)
    \/ \E readable \in BOOLEAN, opened \in OpenResults :
          Reload(readable, opened)

SpecArduino == InitArduino /\ [][NextArduino]_vars

\* The service with its subscriptions and the operations that release
\* them.
NextUnsub ==
    \/ \E readable \in BOOLEAN, opened \in OpenResults :
          ArdSetup(readable, opened)
    \/ \E type \in ActuatorTypes, pin_nr \in ActuatorPins :
          SetupActuator(type, pin_nr)
    \/ \E sens \in DigitalSensors \cup AnalogSensors, hasValue \in BOOLEAN :
          SubscribeSensor(sens, hasValue)
    \/ \E sens \in VirtualwireDigitalSensors \cup VirtualwireAnalogSensors :
          SubscribeVirtualwire(sens)
    \/ \E op \in PinCleanupOps :
          \E pin_nr \in IF op = "cleanup_digital_actuator" THEN ActuatorPins
                        ELSE {PinOf(s) : s \in DigitalSensors \cup AnalogSensors} :
             UnsubscribePin(op, pin_nr)
    \/ \E sens \in VirtualwireDigitalSensors \cup VirtualwireAnalogSensors :
          UnsubscribeVirtualwire(sens)
    \/ ArdCleanup

SpecUnsub == InitArduino /\ [][NextUnsub]_vars

\* The service when setup() has opened the board, created the lock and
\* started the iterator thread, with the worker thread running.
InitLock ==
    /\ EngineIdle /\ LoadIdle /\ NamesIdle /\ LifeIdle /\ SnapIdle
    /\ board = "open"
    /\ is_mocked = "False"
    /\ iterator_thread = "alive"
    /\ keep_alive \in BOOLEAN
    /\ os_errno = TRUE
    /\ timers = <<>>
    /\ keepalive_thread = 0
    /\ kaPc = "none"
    /\ kaTimer = 0
    /\ act_digital = <<>>
    /\ sens_digital = <<>>
    /\ sens_analog = <<>>
    /\ sens_virtualwire_digital = [d \in Devices |-> <<>>]
    /\ sens_virtualwire_analog = [d \in Devices |-> <<>>]
    /\ deviceWrites = 0
    /\ ardLast = NoCall
    /\ ardOps = 0
    /\ lock = "free"
    /\ thPc = [t \in Threads |-> IF t = "timer" THEN "none" ELSE "idle"]
    /\ thOp = [t \in Threads |-> NoOp]
    /\ setupI = 0

NextLock ==
    \/ \E op \in WorkerOps :
          \E pin_nr \in IF op = "change_digital" THEN ActuatorPins ELSE {-1} :
             WorkerCall(op, pin_nr)
    \/ KeepAliveFire
    \/ \E analog_reference \in {-1, 0} : SetupCall(analog_reference)
    \/ \E t \in Threads : BoardWrite(t)
    \/ \E t \in Threads : Return(t)
    \/ \E type \in ActuatorTypes, pin_nr \in ActuatorPins :
          LockedSetupActuator(type, pin_nr)

SpecLock == InitLock /\ [][NextLock]_vars

(***************************************************************************)
(* Properties of the status queue and the worker.                          *)
(***************************************************************************)
\* The queue is empty and the worker is idle.
Settled == queue = <<>> /\ workerPc = "idle"

\* Every active Program's status is its function over its dependencies.
Fixpoint ==
    \A p \in Programs(graph) :
        graph.active[p] => (status[p] = Eval(graph, p, status))

\* C1: once flush() has returned and no request was enqueued since, every
\* active Program's status equals its function evaluated over the statuses of
\* its dependencies.
C1_FlushFixpoint == (flushPc = "returned" /\ ~enqAfterFlush) => Fixpoint

\* C2: in every reachable state, the only thread that has written a
\* SystemObject's status is the worker thread.
C2_SingleWriter == writers \subseteq {"worker"}

\* C3: when the worker applies a popped request whose value equals the
\* target's current status, the status is left unchanged, no Program is
\* recomputed, no cascade request is enqueued and no actuator side effect is
\* invoked.
C3_NoOpRequest ==
    [][(/\ workerPc = "busy"
        /\ workerPc' = "idle"
        /\ inflight.value = status[inflight.target])
       => (/\ status' = status
           /\ queue' = queue
           /\ driverCalls' = driverCalls
           /\ lastStep'.recomputed = {}
           /\ lastStep'.cascades = <<>>
           /\ ~lastStep'.sideEffect)]_vars

\* C3 witness: the worker has skipped a request for an object that has
\* dependents.
C3_Witness ==
    /\ lastStep.kind = "skip"
    /\ Dependents(graph, lastStep.target) # <<>>

\* C4: after the finitely many external requests have been enqueued, the
\* worker reaches the settled state and stays in it, for every dependency
\* graph.
C4_Settles == <>[]Settled

\* C5: in the alarm graph, all statuses initially false, after armed=true and
\* then door=true were enqueued and flush() has returned, alarm_on is true and
\* the siren's driver has received exactly one activation call.
C5_AlarmScenario ==
    (/\ graph = AlarmGraph
     /\ enqLog = << <<"armed", TRUE>>, <<"door", TRUE>> >>
     /\ flushPc = "returned"
     /\ ~enqAfterFlush)
    => (status["alarm_on"] /\ driverCalls["siren"] = 1)

\* C5 witness: the scenario has run and flush() has returned.
C5_Witness ==
    /\ graph = AlarmGraph
    /\ enqLog = << <<"armed", TRUE>>, <<"door", TRUE>> >>
    /\ flushPc = "returned"
    /\ ~enqAfterFlush
    /\ status["siren"]

(***************************************************************************)
(* Properties of save_state and load_or_create (checked under SpecLoad).   *)
(***************************************************************************)
\* A file exists at path and holds another format version.
VersionMismatch ==
    filename # "" /\ files[0].exists /\ files[0].version # STATEFILE_VERSION

\* C6: load_or_create never returns a System when the file at path holds a
\* format_version different from STATEFILE_VERSION: it raises in the load
\* branch and in the create branch, whatever create_new and no_input are.
C6_VersionMismatchRaises ==
    (lc.pc = "done" /\ VersionMismatch)
    => (lc.result.kind = "raised" /\ lc.result.exc = "RuntimeError")

\* C6 witness: create() was forced by create_new on a file of another
\* version, and the call has ended.
C6_Witness ==
    /\ lc.pc = "done"
    /\ VersionMismatch
    /\ lc.branch = "create"
    /\ lc.create_new

\* C7: save_state() followed by load_or_create on the same path yields a
\* system (it does not raise) in which every user-editable object has the
\* status it had at save time, in the load branch and in the create branch.
C7_RoundTrip ==
    (lc.pc = "done" /\ saves >= 1)
    => /\ lc.result.kind \in {"loaded", "created"}
       /\ \A o \in UserEditable \cap DOMAIN lc.result.objs :
              o \in DOMAIN atSave /\ lc.result.objs[o] = atSave[o]

\* C7 witness: a fresh system was created after a save, and got a status
\* other than the default one from the stored editable config.
C7_Witness ==
    /\ lc.pc = "done"
    /\ saves >= 1
    /\ lc.result.kind = "created"
    /\ atSave["lamp"] # DefaultStatus
    /\ objects["lamp"] = DefaultStatus

Existing == {i \in Suffixes : files[i].exists}

C9_LoadsRecentSnapshot ==
    (/\ lc.pc = "done"
     /\ filename # ""
     /\ files[0].exists
     /\ saveMtime > progMtime
     /\ ~lc.argCreateNew
     /\ ~lc.flagCreateNew)
    => /\ lc.prompts = 0
       /\ lc.branch = "load"
       /\ IF files[0].version = STATEFILE_VERSION
          THEN lc.result.kind = "loaded" /\ lc.result.objs = files[0].objs
          ELSE lc.result.kind = "raised"

\* C9 witness: a recent snapshot was loaded although no_input was set.
C9_Witness ==
    /\ lc.pc = "done"
    /\ lc.no_input
    /\ ~lc.create_new
    /\ saveMtime > progMtime
    /\ lc.result.kind = "loaded"
    /\ lc.result.objs # [o \in StaticObjects |-> DefaultStatus]

\* C10 as stated: whenever create_new is set, as the argument or as the flag,
\* load_or_create never prompts and never answers with the loaded system.
C10_CreateNewImpliesNoInput ==
    (lc.pc # "idle" /\ (lc.argCreateNew \/ lc.flagCreateNew))
    => /\ lc.prompts = 0
       /\ lc.branch # "load"
       /\ lc.result.kind # "loaded"

\* C10 amended: whenever the --create_new flag is given, or the create_new
\* argument together with no_input, load_or_create never prompts and answers
\* with create(): a fresh system (a RuntimeError for a file of another format
\* version).  The create_new argument alone does not imply no_input: with an
\* existing snapshot file the call prompts.
C10_FlagImpliesNoInput ==
    /\ (/\ lc.pc # "idle"
        /\ \/ lc.flagCreateNew
           \/ lc.argCreateNew /\ (lc.argNoInput \/ lc.flagNoInput))
       => /\ lc.pc = "done"
          /\ lc.prompts = 0
          /\ lc.branch = "create"
          /\ IF VersionMismatch
             THEN lc.result.kind = "raised"
             ELSE /\ lc.result.kind = "created"
                  /\ DOMAIN lc.result.objs = StaticObjects
    /\ (/\ lc.pc # "idle"
        /\ lc.argCreateNew
        /\ ~lc.flagCreateNew /\ ~lc.argNoInput /\ ~lc.flagNoInput
        /\ filename # ""
        /\ files[0].exists)
       => lc.prompts >= 1

\* C10 witness: --create_new alone forced a fresh system although the
\* snapshot was newer than the program.
C10_Witness ==
    /\ lc.pc = "done"
    /\ lc.flagCreateNew
    /\ ~lc.argNoInput /\ ~lc.flagNoInput /\ ~lc.argCreateNew
    /\ files[0].exists
    /\ saveMtime > progMtime
    /\ lc.result.kind = "created"

\* The snapshot exists at path and is not newer than the program file.
StaleSnapshot == filename # "" /\ files[0].exists /\ ~(saveMtime > progMtime)

\* C11: with no_input set (as the argument or as the flag) load_or_create
\* never waits for user input, and for a snapshot that is not newer than the
\* program file it answers with create(): a fresh system (a RuntimeError for a
\* file of another format version, C6).  Without no_input and without
\* --create_new it prompts in that case, again after every answer other than
\* 'y' and 'n'; 'y' creates and 'n' loads.
C11_NoInputNeverPrompts ==
    /\ (lc.pc # "idle" /\ (lc.argNoInput \/ lc.flagNoInput))
       => /\ lc.pc = "done"
          /\ lc.prompts = 0
          /\ StaleSnapshot =>
                /\ lc.branch = "create"
                /\ IF VersionMismatch
                   THEN lc.result.kind = "raised"
                   ELSE /\ lc.result.kind = "created"
                        /\ DOMAIN lc.result.objs = StaticObjects
    /\ (/\ lc.pc # "idle"
        /\ ~lc.argNoInput /\ ~lc.flagNoInput /\ ~lc.flagCreateNew
        /\ StaleSnapshot)
       => /\ lc.prompts >= 1
          /\ lc.pc = "prompt" =>
                /\ lc.answer \notin {"y", "n"}
                /\ lc.result = NoResult
                /\ (lc.answer = "") = (lc.prompts = 1)
          /\ lc.pc = "done" =>
                \/ lc.answer = "y" /\ lc.branch = "create"
                \/ lc.answer = "n" /\ lc.branch = "load"

\* C11 witness: an answer other than 'y' and 'n' was given, the prompt was
\* repeated, and 'n' then loaded the snapshot.
C11_Witness ==
    /\ lc.pc = "done"
    /\ ~lc.no_input
    /\ StaleSnapshot
    /\ lc.prompts = 2
    /\ lc.answer = "n"
    /\ lc.result.kind = "loaded"

(***************************************************************************)
(* Properties of the namespace.                                            *)
(***************************************************************************)
\* C12: objects registered under the names get_unique_name returns all have
\* different names, and the objects that collide on one base name receive
\* strictly increasing counters, written with two digits (_00, _01, ...):
\* each counter is the first one from 0 whose name was free.
C12_UniqueNames ==
    /\ \A i, j \in 1..Len(regLog) :
          i # j => regLog[i].name # regLog[j].name
    /\ \A i \in 1..Len(regLog) :
          /\ regLog[i].name \in DOMAIN namespace
          /\ regLog[i].counter = -1 => regLog[i].name = regLog[i].base
          /\ regLog[i].counter >= 0 =>
                /\ regLog[i].name = Suffixed(regLog[i].base, regLog[i].counter)
                /\ regLog[i].base \in DOMAIN namespace
                /\ \A k \in 0..(regLog[i].counter - 1) :
                      Suffixed(regLog[i].base, k) \in DOMAIN namespace
    /\ \A i, j \in 1..Len(regLog) :
          (i < j /\ regLog[i].base = regLog[j].base)
             => regLog[i].counter < regLog[j].counter

\* C12 witness: three objects asked for the name lamp and are registered as
\* lamp, lamp_00 and lamp_01.
C12_Witness ==
    \E i, j, k \in 1..Len(regLog) :
       /\ i < j /\ j < k
       /\ regLog[i].name = <<Word("lamp")>>
       /\ regLog[j].name = <<Word("lamp"), Number(<<0, 0>>)>>
       /\ regLog[k].name = <<Word("lamp"), Number(<<0, 1>>)>>
       /\ regLog[j].base = <<Word("lamp")>>
       /\ regLog[k].base = <<Word("lamp")>>
       /\ namespace[regLog[i].name] = TheObject(i)
       /\ namespace[regLog[j].name] = TheObject(j)
       /\ namespace[regLog[k].name] = TheObject(k)

\* C13: no operation replaces the entity a name is bound to, unless the
\* operation deleted the name explicitly.
C13_NoSilentReplace ==
    [][\A n \in DOMAIN namespace :
          \/ n \in nsDeleted'
          \/ n \in DOMAIN namespace' /\ namespace'[n] = namespace[n]]_vars

(***************************************************************************)
(* Properties of construction and teardown.                                *)
(***************************************************************************)
IsPrefix(a, b) == Len(a) <= Len(b) /\ a = SubSeq(b, 1, Len(a))

StepNames(log) == [i \in 1..Len(log) |-> log[i].step]

IsInitStep(e) ==
    e.step \in {"logging", "services", "namespace", "config", "user_services",
                "worker_start", "post_init"}

IsCleanupStep(e) ==
    e.step \in {"pre_exit", "timers", "objects", "user_cleanup", "worker_stop",
                "system_cleanup"}

\* The order of construction the specification states.
StatedInitOrder ==
    <<"logging", "services", "namespace", "config", "user_services">>
    \o (IF worker_autostart THEN <<"worker_start">> ELSE <<>>)
    \o <<"post_init">>

\* The order of teardown the specification states.
StatedCleanupOrder ==
    <<"pre_exit", "timers">>
    \o [i \in 1..Cardinality(LifeObjects) |-> "objects"]
    \o <<"user_cleanup", "worker_stop", "system_cleanup">>

Constructed == lifePc \in {"running", "pre_exit", "timers", "objects",
                           "user_cleanup", "worker_stop", "worker_join",
                           "system_cleanup", "keepalive_cancel", "exited"}

\* C14: the steps of System.__init__ are performed in the stated order, the
\* worker thread is started only with worker_autostart and only after the
\* user services are set up (so never while the namespace is built or the
\* config applied), and post_init is fired once, as the last step.
C14_ConstructionOrder ==
    LET done == SelectSeq(lifeLog, IsInitStep) IN
    /\ IsPrefix(StepNames(done), StatedInitOrder)
    /\ Constructed => StepNames(done) = StatedInitOrder
    /\ \A i \in 1..Len(done) :
          done[i].step \in {"logging", "services", "namespace", "config",
                            "user_services", "worker_start"}
             => ~done[i].worker
    /\ lifePc \in {"begin", "logging", "worker_created", "services",
                   "namespace", "config", "user_services", "worker_start"}
          => ~workerAlive
    /\ workerAlive => worker_autostart
    /\ Cardinality({i \in 1..Len(lifeLog) : lifeLog[i].step = "post_init"}) <= 1

\* C14 witness: a system constructed with worker_autostart, the worker
\* running after post_init has fired.
C14_Witness ==
    /\ lifePc = "running"
    /\ worker_autostart
    /\ workerAlive
    /\ lifeLog[Len(lifeLog)] = [step |-> "post_init", obj |-> "", worker |-> TRUE]

\* C15: the steps of System.cleanup are performed in the stated order, with
\* cleanup() called on every object once; a worker thread that was started
\* is still running while the objects are cleaned up, and it has ended when
\* the system services are cleaned up.
C15_CleanupOrder ==
    LET done == SelectSeq(lifeLog, IsCleanupStep) IN
    /\ IsPrefix(StepNames(done), StatedCleanupOrder)
    /\ lifePc = "exited" => StepNames(done) = StatedCleanupOrder
    /\ \A i, j \in 1..Len(done) :
          (i # j /\ done[i].step = "objects" /\ done[j].step = "objects")
             => done[i].obj # done[j].obj
    /\ \A i \in 1..Len(done) :
          /\ done[i].step \in {"pre_exit", "timers", "objects", "user_cleanup"}
                => done[i].worker = worker_autostart
          /\ done[i].step \in {"worker_stop", "system_cleanup"}
                => ~done[i].worker
    /\ lifePc \in {"keepalive_cancel", "exited"} => ~workerAlive

\* C15 witness: cleanup has returned on a system whose worker was running.
C15_Witness ==
    /\ lifePc = "exited"
    /\ worker_autostart
    /\ cleaned = LifeObjects
    /\ \E i \in 1..Len(lifeLog) :
          lifeLog[i] = [step |-> "objects", obj |-> "temp", worker |-> TRUE]
    /\ lifeLog[Len(lifeLog)] =
          [step |-> "system_cleanup", obj |-> "", worker |-> FALSE]

\* C16: after System.cleanup has returned no timer is pending.
C16_NoTimerAfterCleanup ==
    lifePc = "exited" => \A t \in 1..Len(timers) : timers[t] # "pending"

(***************************************************************************)
(* Properties of the ArduinoService.                                       *)
(***************************************************************************)
\* C17: setup with a device file that is missing or unreadable does not
\* raise and leaves the service mocked: is_mocked true, no board, no
\* iterator thread, no keep-alive timer.  Another OSError from opening the
\* board is raised again and does not lead to mocked mode.
C17_SetupMocksOrReraises ==
    ardLast.op = "setup" =>
       /\ ardLast.arg \in {"unreadable", "ENOENT"} =>
             /\ ardLast.raised = ""
             /\ is_mocked = "True"
             /\ board = "None"
             /\ iterator_thread = "None"
             /\ timers = <<>>
             /\ keepalive_thread = 0
       /\ ardLast.arg = "EIO" =>
             /\ ardLast.raised = "OSError"
             /\ is_mocked # "True"
             /\ board = "None"

Mocked == is_mocked = "True" /\ board = "None"

\* C18: in mocked mode every operation on the board returns without
\* writing to a device and without raising, and setup_digital, setup_pwm
\* and setup_servo record the pin and its type in the actuator table.
C18_MockedNoSideEffects ==
    [][(Mocked /\ ardOps' = ardOps + 1) =>
          /\ ardLast'.op \in SideEffectOps =>
                /\ deviceWrites' = deviceWrites
                /\ ~ardLast'.wrote
                /\ ardLast'.raised = ""
          /\ \A type \in ActuatorTypes :
                ardLast'.op = SetupName(type) =>
                   /\ deviceWrites' = deviceWrites
                   /\ ~ardLast'.wrote
                   /\ ardLast'.raised = ""
                   /\ \E i \in 1..Len(act_digital') :
                         /\ act_digital'[i].pin = ardLast'.pin
                         /\ act_digital'[i].type = type
                   /\ Cardinality({i \in 1..Len(act_digital') :
                                     act_digital'[i].pin = ardLast'.pin}) = 1]_vars

\* C18 witness: a mocked service has recorded a servo on pin 5, and
\* change_digital on that pin has returned with nothing written.
C18_Witness ==
    /\ Mocked
    /\ act_digital = <<PinTuple(5, "s", FALSE)>>
    /\ ardLast.op = "change_digital"
    /\ ardLast.pin = 5
    /\ ardLast.raised = ""
    /\ deviceWrites = 0

\* C19: reload sets up again, once each and in the order of their cleanup,
\* the sensors and actuators it has cleaned up, and the sensor tables hold
\* no other sensor than before.
C19_ReloadSameObjects ==
    (ardLast.op = "reload" /\ ardLast.raised = "") =>
       /\ ardLast.setups = ardLast.cleaned
       /\ \A i \in 1..Len(sens_digital) :
             SensorObject(sens_digital[i]) \in
                {ardLast.cleaned[j] : j \in 1..Len(ardLast.cleaned)}
       /\ \A i \in 1..Len(sens_analog) :
             SensorObject(sens_analog[i]) \in
                {ardLast.cleaned[j] : j \in 1..Len(ardLast.cleaned)}

\* C20: a digital broadcast with other than 2 data arguments, or an analog
\* broadcast with other than 3, is logged and dropped: no set_status call
\* and no exception.  Any other message, also one that follows a dropped
\* message, reaches exactly the subscribed sensors of its sender that it
\* addresses, with the value it carries.
C20_MalformedMessageDropped ==
    ardLast.op = "virtualwire_message" =>
       LET m == ardLast.msg
           wrong == \/ m.command = 6 /\ Len(m.data) # 2
                    \/ m.command = 7 /\ Len(m.data) # 3
           subs == IF m.command = 6 THEN sens_virtualwire_digital[m.sender]
                   ELSE IF m.command = 7 THEN sens_virtualwire_analog[m.sender]
                   ELSE <<>>
           Addressed(sens) ==
              IF m.command = 6 THEN m.data[1] = PinOf(sens) \div 8
              ELSE m.data[1] = PinOf(sens)
       IN
       /\ ardLast.raised = ""
       /\ wrong => ardLast.logged /\ ardLast.calls = <<>>
       /\ ~wrong =>
             /\ ~ardLast.logged
             /\ Len(ardLast.calls) =
                   Cardinality({i \in 1..Len(subs) : Addressed(subs[i])})
             /\ \A i \in 1..Len(ardLast.calls) :
                   LET c == ardLast.calls[i] IN
                   /\ \E j \in 1..Len(subs) : subs[j] = c.sens
                   /\ Addressed(c.sens)
                   /\ m.command = 6 =>
                         c.b = Bit(m.data[2], PinOf(c.sens) % 8)
                   /\ m.command = 7 =>
                         c.n = m.data[2] * 256 + m.data[3]

\* C20 witness: a malformed message was dropped and the message after it
\* has set the status of a subscribed sensor.
C20_Witness ==
    /\ ardLast.op = "virtualwire_message"
    /\ ardLast.prevDropped
    /\ ~ardLast.logged
    /\ ardLast.raised = ""
    /\ ardLast.calls = <<StatusCall("v1", "bool", TRUE, 0)>>

(***************************************************************************)
(* Properties of cmd_exec.                                                 *)
(***************************************************************************)
\* The exception the last command raised inside cmd_exec, "" for none.
CmdRaised ==
    IF cmdLast.ev \in Raises THEN cmdLast.ev
    ELSE IF cmdLast.run \in Raises THEN cmdLast.run
    ELSE ""

C22_WriteOutsideMutex == savePc = "pickle" => mutex = "free"

\* C23: from the moment save_state has the mutex until the capture of the
\* object list and the config ends, no object's status changes.
C23_ConsistentCut == savePc = "capture" => status = capStart

(***************************************************************************)
(* Properties of the operations that release a subscription.               *)
(***************************************************************************)
\* The sensor or pin of the call recorded in c is in the table the call
\* releases it from.
Subscribed(c) ==
    CASE c.op = "unsubscribe_digital" -> HasPin(sens_digital, c.pin)
      [] c.op = "unsubscribe_analog" -> HasPin(sens_analog, c.pin)
      [] c.op = "cleanup_digital_actuator" -> HasPin(act_digital, c.pin)
      [] c.op = "unsubscribe_virtualwire_digital_broadcast" ->
            Contains(sens_virtualwire_digital[DeviceOf(c.arg)], c.arg)
      [] c.op = "unsubscribe_virtualwire_analog_broadcast" ->
            Contains(sens_virtualwire_analog[DeviceOf(c.arg)], c.arg)
      [] OTHER -> FALSE

\* C24: when an unsubscribe or cleanup operation that has succeeded is
\* called again with the same argument, for a pin or sensor that is no
\* longer subscribed, the second call raises nothing and leaves the
\* subscription tables as they were.
C24_CleanupIdempotent ==
    [][(/\ ardOps' = ardOps + 1
        /\ ardLast.op \in PinCleanupOps \cup
              {"unsubscribe_virtualwire_digital_broadcast",
               "unsubscribe_virtualwire_analog_broadcast", "cleanup"}
        /\ ardLast.raised = ""
        /\ ~Subscribed(ardLast)
        /\ ardLast'.op = ardLast.op
        /\ ardLast'.pin = ardLast.pin
        /\ ardLast'.arg = ardLast.arg)
       => (ardLast'.raised = "" /\ pinVars' = pinVars)]_vars

(***************************************************************************)
(* Properties of get_unique_name.                                          *)
(***************************************************************************)
\* k written with two digits, as %.2d writes it: 00 ... 99, and all the
\* digits of a larger k.
TwoDigit(k) ==
    IF k < 10 THEN <<0, k>>
    ELSE IF k < 100 THEN <<k \div 10, k % 10>>
    ELSE <<k \div 100, (k \div 10) % 10, k % 10>>

\* The result of the last get_unique_name call, against the namespace it
\* was called on.
C25_Result ==
    gotName # NoName =>
       LET base == IF gotName.name # <<>> THEN gotName.name
                   ELSE IF gotName.name_from_system # <<>>
                   THEN gotName.name_from_system
                   ELSE <<Word("Nameless"), Word(gotName.cls)>>
           named(k) == base \o <<Number(TwoDigit(k))>>
       IN  /\ gotName.got \notin DOMAIN namespace
           /\ base \notin DOMAIN namespace => gotName.got = base
           /\ base \in DOMAIN namespace =>
                 \E k \in 0..Cardinality(DOMAIN namespace) :
                    /\ gotName.got = named(k)
                    /\ \A j \in 0..(k - 1) : named(j) \in DOMAIN namespace

\* C25: get_unique_name starts from the first non-empty of name,
\* name_from_system and "Nameless_" + class name; it returns that base name
\* when it is free, else base_k with k written with two digits (%.2d) for
\* the smallest k >= 0 whose name is free; the name returned is not in the
\* namespace, and the call leaves the namespace as it was.
C25_GetUniqueName ==
    /\ []C25_Result
    /\ [][gotName' # gotName => namespace' = namespace]_vars

\* C25 witness: an unnamed Sensor in a namespace that holds
\* Nameless_Sensor and Nameless_Sensor_00 is given Nameless_Sensor_01.
C25_Witness ==
    /\ gotName.cls = "Sensor"
    /\ gotName.name = <<>> /\ gotName.name_from_system = <<>>
    /\ <<Word("Nameless"), Word("Sensor")>> \in DOMAIN namespace
    /\ gotName.got = <<Word("Nameless"), Word("Sensor"), Number(<<0, 1>>)>>

(***************************************************************************)
(* Properties of the snapshot's content and of its files.                  *)
(***************************************************************************)
\* C26: in every snapshot save_state has written, the editable config has
\* exactly the user-editable objects of the object list as its keys, each
\* with the status the object had when it was captured; an object that is
\* not user-editable has no entry.
C26_EditableConfigContent ==
    /\ \A i \in Suffixes :
          (files[i].exists /\ files[i].complete /\ files[i].id > 0) =>
             /\ DOMAIN files[i].config =
                   {o \in DOMAIN files[i].objs : o \in UserEditable}
             /\ \A o \in DOMAIN files[i].config :
                   files[i].config[o] = files[i].objs[o]
    /\ (savePc = "idle" /\ saves > 0 /\ filename # "") =>
          files[0].objs = atSave

\* C26 witness: a snapshot written while lamp (user-editable) and temp (not
\* user-editable) both had status 1 holds lamp only.
C26_Witness ==
    /\ files[0].exists /\ files[0].complete /\ files[0].id > 0
    /\ files[0].objs = [o \in StaticObjects |-> 1]
    /\ files[0].config = [o \in {"lamp"} |-> 1]

\* A complete snapshot was at path when the running save_state started:
\* the program found one when it started, or has completed a save.
HadSnapshot == saves > 0 \/ ~startedEmpty

\* C27: if a complete snapshot was at path when save_state started, then
\* at every point inside save_state (after each rename, with the new file
\* open and not yet written) a complete snapshot is at path or at path.1,
\* whatever the number of backups.
C27_CrashConsistent ==
    (savePc # "idle" /\ HadSnapshot) =>
       \E i \in {0, 1} : files[i].exists /\ files[i].complete

(***************************************************************************)
(* Properties of the virtualwire callback's routing.                       *)
(***************************************************************************)
\* The sensors a list holds.
Elements(list) == {list[i] : i \in 1..Len(list)}

\* C28: a well-formed digital broadcast (sender, port_nr, value) calls
\* set_status only on the sensors subscribed under the sender whose
\* pin // 8 is port_nr (and on each of them), with the boolean of bit
\* pin % 8 of value; a well-formed analog broadcast (sender, pin, msb, lsb)
\* only on the sensors subscribed under the sender with that pin (and on
\* each of them); a message with another command code calls nothing.
C28_VirtualwireRouting ==
    (ardLast.op = "virtualwire_message" /\ ardLast.raised = ""
       /\ ~ardLast.logged) =>
       LET m == ardLast.msg
           calls == ardLast.calls
           called == {calls[i].sens : i \in 1..Len(calls)}
       IN  IF m.command = VIRTUALWIRE_DIGITAL_BROADCAST
           THEN /\ called =
                      {s \in Elements(sens_virtualwire_digital[m.sender]) :
                          PinOf(s) \div 8 = m.data[1]}
                /\ \A i \in 1..Len(calls) :
                      /\ calls[i].kind = "bool"
                      /\ calls[i].b =
                            ((m.data[2] \div (2 ^ (PinOf(calls[i].sens) % 8)))
                                % 2 = 1)
           ELSE IF m.command = VIRTUALWIRE_ANALOG_BROADCAST
           THEN called =
                   {s \in Elements(sens_virtualwire_analog[m.sender]) :
                       PinOf(s) = m.data[1]}
           ELSE calls = <<>>

\* C28 witness: v1 (pin 1) and v2 (pin 17) are subscribed under sender 1;
\* the digital broadcast (1, port 0, value 2) sets v1 to True and calls
\* nothing on v2.
C28_Witness ==
    /\ ardLast.op = "virtualwire_message"
    /\ ardLast.msg = [sender |-> 1,
                      command |-> VIRTUALWIRE_DIGITAL_BROADCAST,
                      data |-> <<0, 2>>]
    /\ Elements(sens_virtualwire_digital[1]) = {"v1", "v2"}
    /\ ardLast.calls = <<StatusCall("v1", "bool", TRUE, 0)>>

(***************************************************************************)
(* Properties of reload and the actuator table.                            *)
(***************************************************************************)
\* The pin numbers of an actuator table with their types.
Bindings(table) == {<<table[i].pin, table[i].type>> : i \in 1..Len(table)}

\* C29: a reload that returns leaves in the actuator table the pins it
\* held before, each with the type it had, whatever the type (o, p, s).
C29_ReloadKeepsActuators ==
    [][(ardOps' = ardOps + 1 /\ ardLast'.op = "reload"
          /\ ardLast'.raised = "")
       => Bindings(act_digital') = Bindings(act_digital)]_vars

(***************************************************************************)
(* Properties of System.cleanup when a cleanup raises.                     *)
(***************************************************************************)
\* C30: when System.cleanup has ended, by returning or with the exception
\* of an object's or a user service's cleanup, cleanup() has been called on
\* every object and a worker thread that was running has been stopped.
C30_CleanupCompletes ==
    lifePc \in {"exited", "raised"} =>
       /\ cleaned = LifeObjects
       /\ ~workerAlive
\* C31: once setup() has started the iterator thread, a thread that writes
\* to the board holds the service lock, and no other thread writes to the
\* board at the same time.
C31_WritesUnderLock ==
    \A t \in Threads :
       thPc[t] = "writing" =>
          /\ lock = t
          /\ \A u \in Threads \ {t} : thPc[u] # "writing"

\* C32: a sensor whose subscribe_digital or subscribe_analog was called
\* while the service was mocked is in the table of its pin after a
\* reload() that finds the device available.
C32_MockedSensorResubscribed ==
    [][(/\ ardLast.op \in {"subscribe_digital", "subscribe_analog"}
        /\ ardLast.raised = ""
        /\ is_mocked = "True"
        /\ board = "None"
        /\ ardLast'.op = "reload"
        /\ board' = "open")
       => IF ardLast.op = "subscribe_digital"
          THEN HasPin(sens_digital', ardLast.pin)
          ELSE HasPin(sens_analog', ardLast.pin)]_vars

====
